---- MODULE Spec2Model ----
(***************************************************************************)
(* Universal FHEVM SDK: the instance manager (core/instance), the          *)
(* encryption and decryption sessions (core/encrypt, core/decrypt) and the *)
(* React session facade (useFhevm, useEncrypt, useDecrypt); and the        *)
(* example contract AnonymousMarathon.sol.                                 *)
(*                                                                         *)
(* JavaScript values are modelled as follows: undefined is the string      *)
(* Undefined, null is the record Null, an Error is a record with its       *)
(* message, a bigint is an integer and a numeric string is the sequence of *)
(* its characters.                                                         *)
(***************************************************************************)
EXTENDS Integers, Sequences, FiniteSets, TLC

\* ------------------------------------------------------------------ bounds
\* initialize() calls of one useFhevm facade
MaxInits == 3
\* encrypt / decrypt operations started in one run
MaxTasks == 2
\* elements of one batch
MaxBatch == 3
\* calls a component makes of what useEncrypt / useDecrypt return
MaxHookCalls == 1
\* marathons created on one deployment of AnonymousMarathon
MaxMarathons == 2

\* ------------------------------------------------------------- JS values
Undefined == "<undefined>"
Null == [tag |-> "null"]
Err(msg) == [tag |-> "Error", message |-> msg]

\* a || b on strings: undefined and the empty string are falsy
OrElse(a, b) == IF a = Undefined \/ a = "" THEN b ELSE a

\* typeof-tagged values: n is the number or bigint (1 / 0 for true / false),
\* s the characters of a string
JsNumber(n) == [t |-> "number", n |-> n, s |-> <<>>]
JsBigInt(n) == [t |-> "bigint", n |-> n, s |-> <<>>]
JsString(s) == [t |-> "string", n |-> 0, s |-> s]
JsBoolean(b) == [t |-> "boolean", n |-> IF b THEN 1 ELSE 0, s |-> <<>>]
\* a Uint8Array of the bytes s
JsBytes(s) == [t |-> "Uint8Array", n |-> 0, s |-> s]
\* typeof value
TypeOf(value) == IF value.t = "Uint8Array" THEN "object" ELSE value.t

Digits == <<"0", "1", "2", "3", "4", "5", "6", "7", "8", "9">>
IsDigit(c) == \E d \in 1..10 : Digits[d] = c
DigitValue(c) == (CHOOSE d \in 1..10 : Digits[d] = c) - 1

\* BigInt(string), for strings without whitespace, sign or radix prefix: a
\* string of decimal digits is its value (the empty string is 0n), any other
\* makes it throw a SyntaxError.
IsNumeric(s) == \A i \in 1..Len(s) : IsDigit(s[i])
RECURSIVE ParseDigits(_)
ParseDigits(s) ==
  IF s = <<>> THEN 0
  ELSE 10 * ParseDigits(SubSeq(s, 1, Len(s) - 1)) + DigitValue(s[Len(s)])

\* bigint.toString(): the base-10 digits, no leading zero, "-" first for a
\* negative
RECURSIVE toString(_)
toString(n) ==
  IF n < 0 THEN <<"-">> \o toString(0 - n)
  ELSE IF n < 10 THEN <<Digits[n + 1]>>
  ELSE toString(n \div 10) \o <<Digits[(n % 10) + 1]>>

\* ------------------------------------------------------- core/instance.ts
SepoliaGateway == "https://gateway.sepolia.zama.ai"
LocalhostGateway == "http://localhost:8545"
ZeroAddress == "0x0000000000000000000000000000000000000000"

\* Names every object literal answers to besides its own keys: the members it
\* inherits from Object.prototype. Each is a function or an object, so truthy,
\* and has none of the fields of a row.
InheritedNames == {"constructor", "toString", "valueOf", "hasOwnProperty", "__proto__"}

\* getNetworkDefaults: defaults[network] || defaults.sepolia
getNetworkDefaults(network) ==
  IF network = "localhost"
  THEN [gatewayUrl |-> LocalhostGateway,
        kmsContractAddress |-> ZeroAddress,
        aclContractAddress |-> ZeroAddress]
  ELSE IF network \in InheritedNames
  THEN [gatewayUrl |-> Undefined,
        kmsContractAddress |-> Undefined,
        aclContractAddress |-> Undefined]
  ELSE [gatewayUrl |-> SepoliaGateway,
        kmsContractAddress |-> "0x9D6891A6240D6130c54ae243d8005063D05fE14b",
        aclContractAddress |-> "0xFee8407e2f5e3Ee68ad77cAE98c434e637f516e5"]

\* the argument createFhevmInstance hands to fhevmjs' createInstance
MergedConfig(cfg) ==
  LET networkDefaults == getNetworkDefaults(OrElse(cfg.network, "sepolia"))
  IN [kmsContractAddress |-> OrElse(cfg.kmsContractAddress, networkDefaults.kmsContractAddress),
      aclContractAddress |-> OrElse(cfg.aclContractAddress, networkDefaults.aclContractAddress),
      gatewayUrl |-> OrElse(cfg.gatewayUrl, networkDefaults.gatewayUrl),
      publicKey |-> cfg.publicKey]

\* A FhevmConfig with only the network and the gateway set.
Config(network, gatewayUrl) ==
  [network |-> network, gatewayUrl |-> gatewayUrl, publicKey |-> Undefined,
   kmsContractAddress |-> Undefined, aclContractAddress |-> Undefined]

\* useFhevm(config = {})
EmptyConfig == Config(Undefined, Undefined)

\* The object fhevmjs' createInstance yields for call `id`: the engine decides
\* whether it holds a keypair. `network` remembers the network it was asked for.
FhevmInstance(id, cfg, keypair) ==
  [tag |-> "FhevmInstance", id |-> id, params |-> MergedConfig(cfg),
   network |-> OrElse(cfg.network, "sepolia"), keypair |-> keypair,
   publicKey |-> OrElse(cfg.publicKey, "engine-public-key"),
   methods |-> {"encrypt_bool", "encrypt_uint4", "encrypt_uint8", "encrypt_uint16",
                "encrypt_uint32", "encrypt_uint64", "encrypt_uint128",
                "encrypt_uint256", "encrypt_address", "encrypt_bytes",
                "encrypt_bytes256"}]

\* The primitives of an engine that has none for the wider types.
LegacyMethods == {"encrypt_bool", "encrypt_uint8", "encrypt_uint16", "encrypt_uint32"}

\* isInstanceReady: instance !== null && instance.hasKeypair()
isInstanceReady(inst) == inst # Null /\ inst.keypair

\* ------------------------------------------------------------------ state
VARIABLES
  instance,       \* useFhevm: useState<FhevmInstance | null>(null), per facade
  ready,          \* useFhevm: useState(false)
  error,          \* useFhevm: useState<Error | null>(null)
  loading,        \* useFhevm: useState(true)
  config,         \* the config prop of the facade's latest render
  effectPending,  \* the useEffect on [initialize] has yet to run
  creates,        \* the createFhevmInstance calls, in the order they started
  initFhevmCalls, \* how often fhevmjs' initFhevm was called
  busy,           \* useEncrypt: encrypting, useDecrypt: decrypting
  hookError,      \* useEncrypt / useDecrypt: useState<Error | null>(null)
  last,           \* useEncrypt: lastEncrypted, useDecrypt: lastDecrypted
  tasks,          \* the encrypt / decrypt calls, in the order they started
  ethereum,       \* whether window.ethereum is there
  organizer,          \* AnonymousMarathon: address public organizer
  currentMarathonId,  \* uint256 public currentMarathonId
  registrationFee,    \* uint256 public registrationFee
  marathons,          \* mapping(uint256 => Marathon)
  runners,            \* mapping(uint256 => mapping(address => Runner))
  usedAnonymousIds,   \* mapping(uint256 => mapping(bytes32 => bool)), as a set
  leaderboards,       \* mapping(uint256 => LeaderboardEntry[])
  participants,       \* mapping(uint256 => address[])
  balance,            \* address(this).balance
  now,                \* block.timestamp
  requests,           \* the decryption requests made, with what the oracle
                      \* will call back with
  received,           \* what the contract has transferred to each account
  lastCall            \* the latest transaction sent to the contract

facadeVars == <<instance, ready, error, loading, config, effectPending>>
createVars == <<creates, initFhevmCalls>>
hookVars == <<busy, hookError, last>>
taskVars == <<tasks, ethereum>>
sdkVars == <<facadeVars, createVars, hookVars, taskVars>>
storage ==
  <<organizer, currentMarathonId, registrationFee, marathons, runners,
    usedAnonymousIds, leaderboards, participants, balance, requests, received>>
contractVars == <<storage, now, lastCall>>
vars == <<sdkVars, contractVars>>

\* A component that calls useFhevm(config) itself (FhevmProvider does), and the
\* two hooks that call useFhevm() with no config.
Provider == "FhevmProvider"
Hooks == {"useEncrypt", "useDecrypt"}
Facades == {Provider} \cup Hooks

\* The configs a parent may render the provider with.
ProviderConfigs == {Config("sepolia", Undefined), Config("localhost", Undefined)}

\* ------------------------------------------------ createFhevmInstance calls
\* The calls of facade f, and those still awaiting initFhevm or createInstance.
CallsOf(f) == {k \in DOMAIN creates : creates[k].owner = f}
Pending(k) == creates[k].pc \in {"initFhevm", "createInstance"}
InFlight(f) == {k \in CallsOf(f) : Pending(k)}

\* A createFhevmInstance(cfg) call up to its first await, `await initFhevm()`:
\*   owner   who called: the facade, or "core" (an application)
\*   pc      the await the call is suspended at, or resolved / rejected
\*   steps   what it called so far, and what of that threw
\*   args    the argument it called createInstance with
\*   result  what the promise resolved or rejected with
\*   caller  the promise initialize() returned to the effect or to
\*           reinitialize ("none" for a call an application made itself)
\*   wasReady  whether the facade was ready when initialize() made the call
NewCreate(owner, cfg) ==
  [owner |-> owner, config |-> cfg, pc |-> "initFhevm", steps |-> <<"initFhevm">>,
   args |-> Null, result |-> Null,
   caller |-> IF owner \in Facades THEN "pending" ELSE "none",
   wasReady |-> owner \in Facades /\ ready[owner]]

\* ---------------------------------------------------------------- useFhevm
\* initialize(): setLoading(true); setError(null); createFhevmInstance(config)
\* runs up to its first await, the call of initFhevm().
\* There is no guard: a call starts whatever is already in flight.
initialize(f) ==
  /\ Cardinality(CallsOf(f)) < MaxInits
  /\ loading' = [loading EXCEPT ![f] = TRUE]
  /\ error' = [error EXCEPT ![f] = Null]
  /\ creates' = Append(creates, NewCreate(f, config[f]))
  /\ initFhevmCalls' = initFhevmCalls + 1
  /\ UNCHANGED <<instance, ready>>

\* useEffect(() => { initialize(); }, [initialize])
RunEffect(f) ==
  /\ effectPending[f]
  /\ effectPending' = [effectPending EXCEPT ![f] = FALSE]
  /\ initialize(f)
  /\ UNCHANGED <<config, hookVars, taskVars, contractVars>>

\* reinitialize(): await initialize(). Only a direct user of useFhevm gets it;
\* useEncrypt and useDecrypt do not hand it on.
reinitialize(f) ==
  /\ f = Provider
  /\ initialize(f)
  /\ UNCHANGED <<config, effectPending, hookVars, taskVars, contractVars>>

\* A render with a config that differs in one of initialize's dependencies
\* makes a new initialize, so the effect runs again.
ConfigChange(f, c) ==
  /\ f = Provider
  /\ c # config[f]
  /\ config' = [config EXCEPT ![f] = c]
  /\ effectPending' = [effectPending EXCEPT ![f] = TRUE]
  /\ UNCHANGED <<instance, ready, error, loading, createVars>>
  /\ UNCHANGED <<hookVars, taskVars, contractVars>>

\* initialize() is try / catch / finally and neither catch nor finally throws:
\* its promise resolves whatever createFhevmInstance settled with.
initializeReturns(c, result) ==
  IF c.owner \notin Facades THEN c.caller ELSE "resolved"

\* Settled with setReady(true) in place of setReady(isInstanceReady(newInstance)).
SettledReadyAlways(k, result) ==
  LET f == creates[k].owner
  IN IF f \in Facades
     THEN /\ instance' = [instance EXCEPT ![f] = IF result.tag = "Error" THEN Null ELSE result]
          /\ ready' = [ready EXCEPT ![f] = result.tag # "Error"]
          /\ error' = [error EXCEPT ![f] = IF result.tag = "Error" THEN result ELSE error[f]]
          /\ loading' = [loading EXCEPT ![f] = FALSE]
     ELSE UNCHANGED <<instance, ready, error, loading>>

\* initialize() after `await createFhevmInstance(config)` of call k settled
\* with `result` (an instance, or the Error of the catch branch).
Settled(k, result) ==
  LET f == creates[k].owner
  IN IF f \in Facades
     THEN /\ instance' = [instance EXCEPT ![f] = IF result.tag = "Error" THEN Null ELSE result]
          /\ ready' = [ready EXCEPT ![f] = IF result.tag = "Error" THEN FALSE
                                           ELSE isInstanceReady(result)]
          /\ error' = [error EXCEPT ![f] = IF result.tag = "Error" THEN result ELSE error[f]]
          /\ loading' = [loading EXCEPT ![f] = FALSE]
     ELSE UNCHANGED <<instance, ready, error, loading>>

\* InitFhevmSettle with a failure of initFhevm() swallowed.
InitFhevmSettleCarriesOn(k, ok) ==
  /\ k \in DOMAIN creates
  /\ creates[k].pc = "initFhevm"
  /\ creates' = [creates EXCEPT
                   ![k].pc = "createInstance",
                   ![k].steps = @ \o (IF ok THEN <<>> ELSE <<"initFhevm threw">>)
                                  \o <<"createInstance">>,
                   ![k].args = MergedConfig(creates[k].config)]
  /\ UNCHANGED <<instance, ready, error, loading>>
  /\ UNCHANGED <<config, effectPending, initFhevmCalls, hookVars, taskVars, contractVars>>

\* createFhevmInstance, `await initFhevm()` settles: the call goes on to
\* createInstance({...}), or its catch rethrows.
InitFhevmSettle(k, ok) ==
  /\ k \in DOMAIN creates
  /\ creates[k].pc = "initFhevm"
  /\ IF ok
     THEN /\ creates' = [creates EXCEPT
                           ![k].pc = "createInstance",
                           ![k].steps = Append(@, "createInstance"),
                           ![k].args = MergedConfig(creates[k].config)]
          /\ UNCHANGED <<instance, ready, error, loading>>
     ELSE LET e == Err("Failed to create FHEVM instance: initFhevm failed")
          IN /\ creates' = [creates EXCEPT ![k].pc = "rejected", ![k].result = e,
                                           ![k].steps = Append(@, "initFhevm threw"),
                                           ![k].caller = initializeReturns(creates[k], e)]
             /\ Settled(k, e)
  /\ UNCHANGED <<config, effectPending, initFhevmCalls, hookVars, taskVars, contractVars>>

\* createFhevmInstance, `await createInstance({...})` settles: the engine
\* rejects the merged config, or yields an instance with or without a keypair.
CreateInstanceSettle(k, outcome) ==
  /\ k \in DOMAIN creates
  /\ creates[k].pc = "createInstance"
  /\ LET r == IF outcome = "throw"
              THEN Err("Failed to create FHEVM instance: createInstance failed")
              ELSE IF outcome = "legacy"
              THEN [FhevmInstance(k, creates[k].config, TRUE)
                      EXCEPT !.methods = LegacyMethods]
              ELSE FhevmInstance(k, creates[k].config, outcome = "keypair")
     IN /\ creates' = [creates EXCEPT
                         ![k].pc = IF outcome = "throw" THEN "rejected" ELSE "resolved",
                         ![k].steps = IF outcome = "throw"
                                      THEN Append(@, "createInstance threw") ELSE @,
                         ![k].result = r,
                         ![k].caller = initializeReturns(creates[k], r)]
        /\ Settled(k, r)
  /\ UNCHANGED <<config, effectPending, initFhevmCalls, hookVars, taskVars, contractVars>>

CreateOutcomes == {"keypair", "nokeypair", "throw"}
\* ... or an instance of an engine with fewer primitives.
EngineOutcomes == CreateOutcomes \cup {"legacy"}

\* ------------------------------------------------- encrypt / decrypt calls
\* A call of encryptValue, encryptBatch, decryptValue or decryptBatch:
\*   via       who called: "core" (an application), or the hook
\*   gate      what the hook's `if (!instance || !ready)` read
\*   fn        the core function
\*   inst      its instance argument
\*   items     the handle(s), or the {value, type} element(s)
\*   opts      its DecryptOptions
\*   i         the element in work
\*   pc        the await the call is suspended at, or resolved / rejected
\*   cur       the locals of the decryptValue / encryptValue in work
\*   results   the batch's results array
\*   settled   what the promise resolved or rejected with
\*   trace     what the call did so far, in order
\*   signReqs  the signTypedData requests it made of the wallet
\*   fetchReqs the requests it sent to the gateway
NoLocals ==
  [handleBigInt |-> 0, publicKey |-> Undefined, signature |-> Null,
   response |-> Null, numericValue |-> Null]
NoOptions ==
  [contractAddress |-> Undefined, userAddress |-> Undefined, gatewayUrl |-> Undefined]

NewTask(via, gate, fn, inst, items, opts) ==
  [via |-> via, gate |-> gate, fn |-> fn, inst |-> inst, items |-> items,
   opts |-> opts, i |-> 0, pc |-> "called", cur |-> NoLocals, results |-> <<>>,
   settled |-> Null, trace |-> <<>>, signReqs |-> <<>>, fetchReqs |-> <<>>]

IsBatch(fn) == fn \in {"encryptBatch", "decryptBatch"}
IsDecrypt(fn) == fn \in {"decryptValue", "decryptBatch"}
IsSettled(t) == t.pc \in {"resolved", "rejected"}
Array(elems) == [tag |-> "Array", elems |-> elems]

Log(t, ev) == [t EXCEPT !.trace = Append(@, [ev |-> ev, i |-> t.i, e |-> Null])]
Resolve(t, v) == [t EXCEPT !.pc = "resolved", !.settled = v]
Reject(t, e) == [t EXCEPT !.pc = "rejected", !.settled = e]

\* What the loop of encryptBatch / decryptBatch does once the awaited call for
\* element t.i settled with r (a single call returns or throws r).
RECURSIVE AfterElement(_, _)

\* The call for element t.i throws e (its promise rejects with e), or
\* returns r (its promise resolves with r).
Throw(t, e) ==
  AfterElement([t EXCEPT !.trace = Append(@, [ev |-> "throw", i |-> t.i, e |-> e])], e)
Return(t, r) ==
  AfterElement([t EXCEPT !.trace = Append(@, [ev |-> "return", i |-> t.i, e |-> r])], r)

\* ------------------------------------------------------- core/decrypt.ts
SepoliaChainId == 11155111
DefaultGateway == "https://gateway.sepolia.zama.ai"

\* decryptValue's catch, generateReencryptSignature's catch
DecryptionFailed(msg) == Err("Decryption failed: " \o msg)
SignatureFailed(msg) ==
  DecryptionFailed("Failed to generate reencryption signature: " \o msg)

\* generateReencryptSignature: the EIP-712 domain and message
ReencryptDomain(t) ==
  [name |-> "Authorization token", version |-> "1", chainId |-> SepoliaChainId,
   verifyingContract |-> t.opts.contractAddress]
ReencryptMessage(t) ==
  [publicKey |-> t.cur.publicKey, handle |-> toString(t.cur.handleBigInt)]

\* The signature a wallet gives for a domain and a message: it is valid for
\* these and nothing else.
Signature(domain, message) ==
  [tag |-> "signature", domain |-> domain, message |-> message]

\* signEIP712 up to `await provider.getSigner()`
signEIP712(t) ==
  IF ethereum
  THEN [Log(t, "getSigner") EXCEPT !.pc = "getSigner"]
  ELSE Throw(t, SignatureFailed(
         "No Ethereum provider found. Install MetaMask or provide a signer."))

\* generateReencryptSignature up to its first await
generateReencryptSignature(t) ==
  signEIP712(Log([t EXCEPT !.cur.publicKey = t.inst.publicKey], "getPublicKey"))

\* decryptValue for element t.i, up to its first await
decryptValue(t) ==
  LET handle == t.items[t.i]
      u == Log(t, "decryptValue")
  IN IF ~t.inst.keypair
     THEN Throw(u, DecryptionFailed("Instance does not have a keypair"))
     ELSE IF handle.t = "string" /\ ~IsNumeric(handle.s)
     THEN Throw(u, DecryptionFailed("Cannot convert string to a BigInt"))
     ELSE generateReencryptSignature(
            [u EXCEPT !.cur.handleBigInt =
               IF handle.t = "string" THEN ParseDigits(handle.s) ELSE handle.n])

\* decryptValue: options.gatewayUrl || 'https://gateway.sepolia.zama.ai'
GatewayUrl(t) == OrElse(t.opts.gatewayUrl, DefaultGateway)

\* GatewayRequest with the handle as the caller gave it.
GatewayRequestRawHandle(t) ==
  LET handle == t.items[t.i]
  IN [url |-> GatewayUrl(t) \o "/reencrypt", method |-> "POST",
      body |-> [handle |-> IF handle.t = "string" THEN handle.s ELSE toString(handle.n),
                publicKey |-> t.cur.publicKey,
                signature |-> t.cur.signature,
                contractAddress |-> t.opts.contractAddress]]

\* requestDecryption: the fetch it issues
GatewayRequest(t) ==
  [url |-> GatewayUrl(t) \o "/reencrypt", method |-> "POST",
   body |-> [handle |-> toString(t.cur.handleBigInt),
             publicKey |-> t.cur.publicKey,
             signature |-> t.cur.signature,
             contractAddress |-> t.opts.contractAddress]]

\* signEIP712 after getSigner: signer.signTypedData(domain, types, message)
signTypedData(t) ==
  [Log(t, "signTypedData") EXCEPT
     !.pc = "signTypedData",
     !.signReqs = Append(@, [i |-> t.i, domain |-> ReencryptDomain(t),
                             message |-> ReencryptMessage(t)])]

\* decryptValue after generateReencryptSignature returned: requestDecryption
\* up to `await fetch(...)`
requestDecryption(t, signature) ==
  LET u == [t EXCEPT !.cur.signature = signature]
  IN [Log(u, "fetch") EXCEPT
        !.pc = "fetch",
        !.fetchReqs = Append(@, [i |-> t.i] @@ GatewayRequest(u))]

\* response.ok
Ok(response) == response.status >= 200 /\ response.status <= 299

\* gatewayError without the response's detail.
gatewayErrorNoDetail(response) == DecryptionFailed("Gateway request failed")

\* requestDecryption's throw on !response.ok, as decryptValue rethrows it
gatewayError(response) ==
  DecryptionFailed("Gateway request failed: " \o response.statusText)

\* afterFetch without the check of response.ok.
afterFetchIgnoresStatus(t, response) ==
  [Log(Log([t EXCEPT !.cur.response = response], "response"), "json")
     EXCEPT !.pc = "json"]

\* afterFetch with one more attempt after a failure status.
afterFetchRetriesOnce(t, response) ==
  LET u == Log([t EXCEPT !.cur.response = response], "response")
  IN IF ~Ok(response)
     THEN IF Len(t.fetchReqs) < 2 THEN requestDecryption(u, t.cur.signature)
          ELSE Throw(u, gatewayError(response))
     ELSE [Log(u, "json") EXCEPT !.pc = "json"]

\* requestDecryption after fetch resolved with `response`
afterFetch(t, response) ==
  LET u == Log([t EXCEPT !.cur.response = response], "response")
  IN IF ~Ok(response)
     THEN Throw(u, gatewayError(response))
     ELSE [Log(u, "json") EXCEPT !.pc = "json"]

\* afterJson that returns the handle it asked about for the decrypted value.
afterJsonReturnsHandle(t) ==
  LET data == t.cur.response.body
  IN IF ~data.json
     THEN Throw(t, DecryptionFailed("Unexpected token in JSON"))
     ELSE IF ~IsNumeric(data.value)
     THEN Throw(t, DecryptionFailed("Cannot convert string to a BigInt"))
     ELSE LET decryptedValue == JsBigInt(t.cur.handleBigInt)
          IN Return(t, [tag |-> "DecryptResult", value |-> decryptedValue,
                        raw |-> decryptedValue])

\* requestDecryption after response.json() settled: `return BigInt(data.value)`,
\* and decryptValue's return { value: decryptedValue, raw: decryptedValue }
afterJson(t) ==
  LET data == t.cur.response.body
  IN IF ~data.json
     THEN Throw(t, DecryptionFailed("Unexpected token in JSON"))
     ELSE IF ~IsNumeric(data.value)
     THEN Throw(t, DecryptionFailed("Cannot convert string to a BigInt"))
     ELSE LET decryptedValue == JsBigInt(ParseDigits(data.value))
          IN Return(t, [tag |-> "DecryptResult", value |-> decryptedValue,
                        raw |-> decryptedValue])

\* String.prototype.toLowerCase, on the characters of an address
LowerOf(c) ==
  CASE c = "A" -> "a" [] c = "B" -> "b" [] c = "C" -> "c"
    [] c = "D" -> "d" [] c = "E" -> "e" [] c = "F" -> "f"
    [] OTHER -> c
toLowerCase(s) == [i \in 1..Len(s) |-> LowerOf(s[i])]

\* ethers.verifyMessage(message, signature): the checksummed address of the
\* key that signed, which for another message than the signed one is the
\* address of no known key; it throws on a signature it cannot parse.
NoOnesAddress == <<"0", "x", "9", "e", "E", "7">>
verifyMessage(message, signature) ==
  IF signature.tag # "signature" THEN [ok |-> FALSE, address |-> <<>>]
  ELSE [ok |-> TRUE,
        address |-> IF signature.message = message THEN signature.signer
                    ELSE NoOnesAddress]

\* verifyDecryptSignature with `recoveredAddress === expectedAddress`.
verifyDecryptSignatureExact(signature, publicKey, expectedAddress) ==
  LET recovered == verifyMessage(publicKey, signature)
  IN IF ~recovered.ok THEN FALSE
     ELSE IF expectedAddress.t # "string" THEN FALSE
     ELSE recovered.address = expectedAddress.s

\* verifyDecryptSignature: what its promise resolves with. Whatever throws in
\* the try (verifyMessage, toLowerCase of a non-string) is caught: false.
verifyDecryptSignature(signature, publicKey, expectedAddress) ==
  LET recovered == verifyMessage(publicKey, signature)
  IN IF ~recovered.ok THEN FALSE
     ELSE IF expectedAddress.t # "string" THEN FALSE
     ELSE toLowerCase(recovered.address) = toLowerCase(expectedAddress.s)

\* ------------------------------------------------------- core/encrypt.ts
EncryptionTypes ==
  {"bool", "uint4", "uint8", "uint16", "uint32", "uint64", "uint128", "uint256",
   "address", "bytes", "bytes256"}

EncryptionFailed(msg) == Err("Encryption failed: " \o msg)

\* Boolean(value)
Truthy(value) ==
  CASE value.t \in {"number", "bigint", "boolean"} -> value.n # 0
    [] value.t = "string" -> value.s # <<>>
    [] OTHER -> TRUE

\* convertToNumeric: the converted value, or the Error it throws
convertToNumeric(value, type) ==
  IF type = "bool" THEN JsBoolean(Truthy(value))
  ELSE IF type = "address" THEN value
  ELSE IF type \in {"bytes", "bytes256"}
  THEN IF value.t = "Uint8Array" THEN value
       ELSE IF value.t = "string" THEN JsBytes(value.s)
       ELSE Err("Bytes type requires Uint8Array or string")
  ELSE IF value.t = "bigint" THEN value
  ELSE IF value.t = "number" THEN value
  ELSE IF value.t = "string"
  THEN IF IsNumeric(value.s) THEN JsBigInt(ParseDigits(value.s))
       ELSE Err("Cannot convert string to a BigInt")
  ELSE Err("Cannot convert " \o TypeOf(value) \o " to numeric for type " \o type)

\* encryptMethod with one primitive for every type.
encryptMethodOfDefault(type) == "encrypt_uint64"

\* encryptByType: the engine method of the type
encryptMethod(type) == "encrypt_" \o type

\* encryptValue without its test of instance.hasKeypair().
encryptValueUnchecked(t) ==
  LET item == t.items[t.i]
      u == Log(t, "encryptValue")
      numericValue == convertToNumeric(item.value, item.type)
  IN IF "tag" \in DOMAIN numericValue
     THEN Throw(u, EncryptionFailed(numericValue.message))
     ELSE IF encryptMethod(item.type) \notin t.inst.methods
     THEN Throw(u, EncryptionFailed(
            "Encryption method for type " \o item.type \o " not found"))
     ELSE [Log([u EXCEPT !.cur.numericValue = numericValue], encryptMethod(item.type))
             EXCEPT !.pc = "engine"]

\* encryptValue for element t.i, up to `await encryptByType(...)`: the engine
\* primitive is called before the await.
encryptValue(t) ==
  LET item == t.items[t.i]
      u == Log(t, "encryptValue")
      numericValue == convertToNumeric(item.value, item.type)
  IN IF ~t.inst.keypair
     THEN Throw(u, EncryptionFailed(
            "Instance does not have a keypair. Initialize instance first."))
     ELSE IF "tag" \in DOMAIN numericValue
     THEN Throw(u, EncryptionFailed(numericValue.message))
     ELSE IF encryptMethod(item.type) \notin t.inst.methods
     THEN Throw(u, EncryptionFailed(
            "Encryption method for type " \o item.type \o " not found"))
     ELSE [Log([u EXCEPT !.cur.numericValue = numericValue], encryptMethod(item.type))
             EXCEPT !.pc = "engine"]

\* encryptValue after the engine primitive settled with `encrypted`
afterEngine(t, encrypted) ==
  IF encrypted.tag = "Error"
  THEN Throw(t, EncryptionFailed(encrypted.message))
  ELSE Return(t, [tag |-> "EncryptedValue", data |-> encrypted.data,
                  handles |-> IF "handles" \in DOMAIN encrypted
                              THEN encrypted.handles ELSE <<>>,
                  inputProof |-> OrElse(encrypted.inputProof, "")])

\* ---------------------------------------------- encryptBatch / decryptBatch
\* The call for element i: `await decryptValue(instance, handle, options)`
BeginElement(t, i) ==
  LET u == [t EXCEPT !.i = i, !.cur = NoLocals]
  IN IF IsDecrypt(t.fn) THEN decryptValue(u) ELSE encryptValue(u)

\* AfterElement with the failure of an element caught and skipped.
AfterElementBestEffort(t, r) ==
  IF ~IsBatch(t.fn) THEN (IF r.tag = "Error" THEN Reject(t, r) ELSE Resolve(t, r))
  ELSE LET u == IF r.tag = "Error" THEN t ELSE [t EXCEPT !.results = Append(@, r)]
       IN IF t.i < Len(t.items) THEN BeginElement(u, t.i + 1)
          ELSE Resolve(u, Array(u.results))

\* AfterElement with results.unshift(r) for results.push(r).
AfterElementUnshift(t, r) ==
  IF r.tag = "Error" THEN Reject(t, r)
  ELSE IF ~IsBatch(t.fn) THEN Resolve(t, r)
  ELSE LET u == [t EXCEPT !.results = <<r>> \o @]
       IN IF t.i < Len(t.items) THEN BeginElement(u, t.i + 1)
          ELSE Resolve(u, Array(u.results))

\* for (...) { const r = await xValue(...); results.push(r); } return results;
\* a throw of the awaited call leaves the loop and rejects the batch.
AfterElement(t, r) ==
  IF r.tag = "Error" THEN Reject(t, r)
  ELSE IF ~IsBatch(t.fn) THEN Resolve(t, r)
  ELSE LET u == [t EXCEPT !.results = Append(@, r)]
       IN IF t.i < Len(t.items) THEN BeginElement(u, t.i + 1)
          ELSE Resolve(u, Array(u.results))

\* The body of the called function up to its first await.
Start(t) ==
  IF IsBatch(t.fn) /\ t.items = <<>> THEN Resolve(t, Array(<<>>))
  ELSE BeginElement(t, 1)

\* ------------------------------------------------------------- environment
\* What the gateway may answer a request for `handle` with: the plaintext it
\* holds for the handle, a success whose body is not JSON or whose value is no
\* integer, or a failure status (HTTP/2 responses carry no status text).
GatewayPlaintext(handle) == ParseDigits(handle) + 37
Response(status, statusText, json, value) ==
  [status |-> status, statusText |-> statusText,
   body |-> [json |-> json, value |-> value, served |-> "gateway-1"]]
Responses(handle) ==
  {Response(200, "OK", TRUE, toString(GatewayPlaintext(handle))),
   Response(200, "OK", TRUE, <<"n", "a">>),
   Response(200, "OK", FALSE, <<>>),
   Response(500, "Internal Server Error", FALSE, <<>>),
   Response(500, "", FALSE, <<>>),
   Response(503, "", FALSE, <<>>)}

\* What an engine primitive may do with a value: return a ciphertext with one
\* handle, return an object without handles and with no data, or throw.
Plain(value) == IF value.s # <<>> THEN value.s ELSE toString(value.n)
EngineResults(type, value) ==
  {[tag |-> "encrypted", data |-> <<type>> \o Plain(value),
    handles |-> <<toString(value.n + 100)>>, inputProof |-> "proof"],
   [tag |-> "encrypted", data |-> <<>>, inputProof |-> Undefined],
   Err("engine failure")}

\* ------------------------------------------------- the steps of a call
\* HookSettle with a catch that rethrows without setError(error).
HookSettleDropsError(u, errorBefore) ==
  LET h == u.via
  IN /\ busy' = [busy EXCEPT ![h] = FALSE]
     /\ hookError' = [hookError EXCEPT ![h] = errorBefore]
     /\ last' = [last EXCEPT ![h] =
                   IF u.pc = "rejected" THEN @
                   ELSE IF ~IsBatch(u.fn) THEN u.settled
                   ELSE IF Len(u.settled.elems) > 0
                   THEN u.settled.elems[Len(u.settled.elems)]
                   ELSE @]

\* useEncrypt / useDecrypt after `await` of the core call of task u settled:
\* setLast...(result), or setError(error) in catch; setEncrypting(false) in
\* finally.
HookSettle(u, errorBefore) ==
  LET h == u.via
  IN /\ busy' = [busy EXCEPT ![h] = FALSE]
     /\ hookError' = [hookError EXCEPT ![h] =
                        IF u.pc = "rejected" THEN u.settled ELSE errorBefore]
     /\ last' = [last EXCEPT ![h] =
                   IF u.pc = "rejected" THEN @
                   ELSE IF ~IsBatch(u.fn) THEN u.settled
                   ELSE IF Len(u.settled.elems) > 0
                   THEN u.settled.elems[Len(u.settled.elems)]
                   ELSE @]

\* Task id goes on to u.
Step(id, u) ==
  /\ tasks' = [tasks EXCEPT ![id] = u]
  /\ IF u.via \in Hooks /\ IsSettled(u)
     THEN HookSettle(u, hookError[u.via])
     ELSE UNCHANGED hookVars
  /\ UNCHANGED <<facadeVars, createVars, ethereum, contractVars>>

At(id, pc) == id \in DOMAIN tasks /\ tasks[id].pc = pc

\* `await provider.getSigner()` settles
GetSignerSettle(id, ok) ==
  /\ At(id, "getSigner")
  /\ Step(id, IF ok THEN signTypedData(tasks[id])
              ELSE Throw(tasks[id], SignatureFailed("could not get a signer")))

\* `await signer.signTypedData(...)` settles: the wallet signs what it was
\* asked to sign, or the user rejects.
SignTypedDataSettle(id, ok) ==
  /\ At(id, "signTypedData")
  /\ LET t == tasks[id]
         asked == t.signReqs[Len(t.signReqs)]
     IN Step(id, IF ok
                 THEN requestDecryption(Log(t, "signed"),
                                        Signature(asked.domain, asked.message))
                 ELSE Throw(t, SignatureFailed("user rejected the request")))

\* `await fetch(...)` rejects (no connection)
FetchFail(id) ==
  /\ At(id, "fetch")
  /\ Step(id, Throw(tasks[id], DecryptionFailed("fetch failed")))

\* `await fetch(...)` resolves with the gateway's response
FetchSettle(id, response) ==
  /\ At(id, "fetch")
  /\ Step(id, afterFetch(tasks[id], response))

\* `await response.json()` settles
JsonSettle(id) ==
  /\ At(id, "json")
  /\ Step(id, afterJson(tasks[id]))

\* the awaited engine primitive settles
EngineSettle(id, encrypted) ==
  /\ At(id, "engine")
  /\ Step(id, afterEngine(tasks[id], encrypted))

\* The gateway answers the request task id has in flight.
GatewayAnswers(id) ==
  LET t == tasks[id]
  IN Responses(t.fetchReqs[Len(t.fetchReqs)].body.handle)

\* The engine settles the primitive task id awaits.
EngineAnswers(id) ==
  LET t == tasks[id]
  IN EngineResults(t.items[t.i].type, t.cur.numericValue)

DecryptStep ==
  \/ \E id \in DOMAIN tasks, ok \in BOOLEAN : GetSignerSettle(id, ok)
  \/ \E id \in DOMAIN tasks, ok \in BOOLEAN : SignTypedDataSettle(id, ok)
  \/ \E id \in DOMAIN tasks : FetchFail(id)
  \/ \E id \in DOMAIN tasks : At(id, "fetch") /\
        \E response \in GatewayAnswers(id) : FetchSettle(id, response)
  \/ \E id \in DOMAIN tasks : JsonSettle(id)

EncryptStep ==
  \E id \in DOMAIN tasks : At(id, "engine") /\
    \E encrypted \in EngineAnswers(id) : EngineSettle(id, encrypted)

TaskStep == DecryptStep \/ EncryptStep

\* -------------------------------------------------- useEncrypt / useDecrypt
NotReadyError == Err("FHEVM instance not ready. Wait for initialization.")

\* The gate without its test of ready.
NotReadyIgnoresReady(h) == instance[h] = Null

\* if (!instance || !ready)
NotReady(h) == instance[h] = Null \/ ~ready[h]

\* encrypt / encryptMultiple of useEncrypt, decrypt / decryptMultiple of
\* useDecrypt: the core function each one awaits
HookFns(h) ==
  IF h = "useEncrypt" THEN {"encryptValue", "encryptBatch"}
  ELSE {"decryptValue", "decryptBatch"}

HookCall(h, fn, items, opts) ==
  /\ Len(tasks) < MaxTasks
  /\ fn \in HookFns(h)
  /\ LET gate == [instance |-> instance[h], ready |-> ready[h]]
         t == NewTask(h, gate, fn, instance[h], items, opts)
     IN IF NotReady(h)
        THEN /\ tasks' = Append(tasks, Reject(t, NotReadyError))
             /\ UNCHANGED hookVars
        ELSE LET u == Start(t)
             IN /\ tasks' = Append(tasks, u)
                /\ IF IsSettled(u)
                   THEN HookSettle(u, Null)
                   ELSE /\ busy' = [busy EXCEPT ![h] = TRUE]
                        /\ hookError' = [hookError EXCEPT ![h] = Null]
                        /\ UNCHANGED last
  /\ UNCHANGED <<facadeVars, createVars, ethereum, contractVars>>

\* ------------------------------------------------- an application of core
\* An application calls createFhevmInstance(cfg) once ...
CoreCreate(cfg) ==
  /\ creates = <<>>
  /\ creates' = Append(creates, NewCreate("core", cfg))
  /\ initFhevmCalls' = initFhevmCalls + 1
  /\ UNCHANGED <<facadeVars, hookVars, taskVars, contractVars>>

\* ... and calls a core function with the instance it got.
CoreCall(fn, k, items, opts) ==
  /\ Len(tasks) < MaxTasks
  /\ k \in DOMAIN creates
  /\ creates[k].pc = "resolved"
  /\ tasks' = Append(tasks, Start(NewTask("core", Null, fn, creates[k].result, items, opts)))
  /\ UNCHANGED <<facadeVars, createVars, hookVars, ethereum, contractVars>>

\* ------------------------------------------------------------------ inputs
RECURSIVE ListsUpTo(_, _)
ListsUpTo(S, n) ==
  IF n = 0 THEN {<<>>}
  ELSE LET shorter == ListsUpTo(S, n - 1)
       IN shorter \cup {Append(l, x) : l \in shorter, x \in S}

Handles == {JsBigInt(5), JsString(<<"5">>), JsString(<<"0", "7">>), JsString(<<"5", "x">>)}
EncryptItems ==
  {[value |-> JsNumber(1), type |-> "uint8"],
   [value |-> JsString(<<"b", "a", "d">>), type |-> "uint8"],
   [value |-> JsBoolean(TRUE), type |-> "bool"]}
Options(gatewayUrls) ==
  {[contractAddress |-> "0xC0FFEE", userAddress |-> "0xA11CE", gatewayUrl |-> g] :
     g \in gatewayUrls}

\* The arguments of a call of fn: <<items, options>>
Arguments(fn, gatewayUrls) ==
  CASE fn = "encryptValue" -> {<<<<x>>, NoOptions>> : x \in EncryptItems}
    [] fn = "encryptBatch" -> {<<l, NoOptions>> : l \in ListsUpTo(EncryptItems, MaxBatch)}
    [] fn = "decryptValue" -> {<<<<x>>, o>> : x \in Handles, o \in Options(gatewayUrls)}
    [] fn = "decryptBatch" ->
         {<<l, o>> : l \in ListsUpTo(Handles, MaxBatch), o \in Options(gatewayUrls)}

\* What a component passes to the hooks' functions.
HookArguments(fn) ==
  CASE fn = "encryptValue" -> {<<<<[value |-> JsNumber(1), type |-> "uint8"]>>, NoOptions>>}
    [] fn = "encryptBatch" ->
         {<<l, NoOptions>> : l \in ListsUpTo({[value |-> JsNumber(1), type |-> "uint8"]}, MaxBatch)}
    [] fn = "decryptValue" -> {<<<<JsBigInt(5)>>, o>> : o \in Options({Undefined})}
    [] fn = "decryptBatch" ->
         {<<l, o>> : l \in ListsUpTo({JsBigInt(5)}, MaxBatch), o \in Options({Undefined})}

\* What an application may hand to encryptValue: each type with a number in
\* and out of every width, a bigint, a boolean, strings and a byte array.
EncryptValues ==
  {JsNumber(1), JsNumber(300), JsNumber(0 - 1), JsBigInt(16), JsBoolean(TRUE),
   JsString(<<"7">>), JsString(<<"b", "a", "d">>), JsBytes(<<"1", "2">>)}
ValueArguments(fn) ==
  IF fn = "encryptValue"
  THEN {<<<<[value |-> v, type |-> ty]>>, NoOptions>> : v \in EncryptValues, ty \in EncryptionTypes}
  ELSE Arguments(fn, {Undefined})

CoreFns == {"encryptValue", "encryptBatch", "decryptValue", "decryptBatch"}
GatewayUrls == {Undefined, "https://gateway.example"}
CoreConfigs ==
  {EmptyConfig, Config("localhost", Undefined), Config("sepolia", "https://gateway.example")}

\* -------------------------------------------------- AnonymousMarathon.sol
\* Amounts are in units of 0.0001 ether, times in hours. The encrypted
\* profile of a runner (age, experience, previous time) is left out; an
\* encrypted finish time is the time it decrypts to.
Deployer == "0xOrganizer"
Accounts == {Deployer, "0xA11CE", "0xB0B"}
ZeroId == "0x00"
MarathonIds == 0..(MaxMarathons + 1)

\* The zero values of the structs Marathon and Runner
NoMarathon ==
  [eventDate |-> 0, registrationDeadline |-> 0, maxParticipants |-> 0,
   currentRegistrations |-> 0, isActive |-> FALSE, isCompleted |-> FALSE,
   prizePool |-> 0]
NoRunner ==
  [hasRegistered |-> FALSE, hasFinished |-> FALSE, encryptedFinishTime |-> 0,
   anonymousId |-> ZeroId]

\* constructor(), and the chain it is deployed on
Deployed ==
  /\ organizer = Deployer
  /\ currentMarathonId = 0
  /\ registrationFee = 10
  /\ marathons = [m \in MarathonIds |-> NoMarathon]
  /\ runners = [m \in MarathonIds |-> [a \in Accounts |-> NoRunner]]
  /\ usedAnonymousIds = [m \in MarathonIds |-> {}]
  /\ leaderboards = [m \in MarathonIds |-> <<>>]
  /\ participants = [m \in MarathonIds |-> <<>>]
  /\ balance = 0
  /\ now = 0
  /\ requests = <<>>
  /\ received = [a \in Accounts |-> 0]
  /\ lastCall = [fn |-> "constructor", sender |-> Deployer, marathonId |-> 0,
                 reverted |-> FALSE]

\* A transaction that calls fn (marathonId: the marathon the call names, if any);
\* one that reverts changes no storage.
Called(fn, sender, marathonId, reverted) ==
  /\ lastCall' = [fn |-> fn, sender |-> sender, marathonId |-> marathonId,
                  reverted |-> reverted]
  /\ UNCHANGED <<now, sdkVars>>
Revert(fn, sender, marathonId) ==
  Called(fn, sender, marathonId, TRUE) /\ UNCHANGED storage

\* The ids of the marathons created so far
Existing == 1..currentMarathonId

\* The modifiers
anySender(sender) == TRUE
onlyOrganizer(sender) == sender = organizer
marathonExists(marathonId) == marathonId > 0 /\ marathonId <= currentMarathonId
\* registrationOpen without its test of the capacity.
registrationOpenUnbounded(marathonId) ==
  /\ marathons[marathonId].isActive
  /\ now < marathons[marathonId].registrationDeadline
\* registrationOpen with `<=` in its test of the deadline.
registrationOpenAtDeadline(marathonId) ==
  /\ marathons[marathonId].isActive
  /\ now <= marathons[marathonId].registrationDeadline
  /\ marathons[marathonId].currentRegistrations < marathons[marathonId].maxParticipants
registrationOpen(marathonId) ==
  /\ marathons[marathonId].isActive
  /\ now < marathons[marathonId].registrationDeadline
  /\ marathons[marathonId].currentRegistrations < marathons[marathonId].maxParticipants

\* A marathon stored with a prize pool it never collected.
MarathonFunded(eventDate, registrationDeadline, maxParticipants) ==
  [eventDate |-> eventDate, registrationDeadline |-> registrationDeadline,
   maxParticipants |-> maxParticipants, currentRegistrations |-> 0,
   isActive |-> TRUE, isCompleted |-> FALSE, prizePool |-> 10]
\* The Marathon struct createMarathon stores (without its name)
Marathon(eventDate, registrationDeadline, maxParticipants) ==
  [eventDate |-> eventDate, registrationDeadline |-> registrationDeadline,
   maxParticipants |-> maxParticipants, currentRegistrations |-> 0,
   isActive |-> TRUE, isCompleted |-> FALSE, prizePool |-> 0]

createMarathon(sender, eventDate, registrationDeadline, maxParticipants) ==
  /\ currentMarathonId < MaxMarathons
  /\ IF /\ onlyOrganizer(sender)
        /\ eventDate > now
        /\ registrationDeadline < eventDate
        /\ maxParticipants > 0
     THEN /\ currentMarathonId' = currentMarathonId + 1
          /\ marathons' = [marathons EXCEPT ![currentMarathonId + 1] =
               Marathon(eventDate, registrationDeadline, maxParticipants)]
          /\ Called("createMarathon", sender, 0, FALSE)
          /\ UNCHANGED <<organizer, registrationFee, runners, usedAnonymousIds,
                         leaderboards, participants, balance, requests, received>>
     ELSE Revert("createMarathon", sender, 0)

\* A registration admitted whoever sends it and whatever id it names.
anyRegistration(marathonId, sender, anonymousId) == TRUE
\* The two requires of registerForMarathon on the sender and the id
firstRegistration(marathonId, sender, anonymousId) ==
  /\ ~runners[marathonId][sender].hasRegistered
  /\ anonymousId \notin usedAnonymousIds[marathonId]

\* A prize pool that grows by the fee, whatever was sent.
prizePoolPlusFee(marathonId, value) == marathons[marathonId].prizePool + registrationFee
\* prizePool += msg.value
prizePoolPlusValue(marathonId, value) == marathons[marathonId].prizePool + value

\* registerForMarathon, msg.value = value
registerForMarathon(sender, marathonId, value, experienceLevel, anonymousId) ==
  IF /\ marathonExists(marathonId)
     /\ registrationOpen(marathonId)
     /\ value >= registrationFee
     /\ firstRegistration(marathonId, sender, anonymousId)
     /\ experienceLevel >= 1 /\ experienceLevel <= 10
     /\ anonymousId # ZeroId
  THEN /\ runners' = [runners EXCEPT ![marathonId][sender] =
            [hasRegistered |-> TRUE, hasFinished |-> FALSE,
             encryptedFinishTime |-> 0, anonymousId |-> anonymousId]]
       /\ marathons' = [marathons EXCEPT
            ![marathonId].currentRegistrations = @ + 1,
            ![marathonId].prizePool = prizePoolPlusValue(marathonId, value)]
       /\ participants' = [participants EXCEPT ![marathonId] = Append(@, sender)]
       /\ usedAnonymousIds' = [usedAnonymousIds EXCEPT ![marathonId] = @ \cup {anonymousId}]
       /\ balance' = balance + value
       /\ Called("registerForMarathon", sender, marathonId, FALSE)
       /\ UNCHANGED <<organizer, currentMarathonId, registrationFee, leaderboards,
                      requests, received>>
  ELSE Revert("registerForMarathon", sender, marathonId)

recordFinishTime(sender, marathonId, runner, finishTimeMinutes) ==
  IF /\ onlyOrganizer(sender)
     /\ marathonExists(marathonId)
     /\ runners[marathonId][runner].hasRegistered
     /\ ~runners[marathonId][runner].hasFinished
     /\ now >= marathons[marathonId].eventDate
  THEN /\ runners' = [runners EXCEPT
            ![marathonId][runner].encryptedFinishTime = finishTimeMinutes,
            ![marathonId][runner].hasFinished = TRUE]
       /\ leaderboards' = [leaderboards EXCEPT ![marathonId] =
            Append(@, [anonymousId |-> runners[marathonId][runner].anonymousId,
                       isRevealed |-> FALSE, finishTime |-> 0])]
       /\ Called("recordFinishTime", sender, marathonId, FALSE)
       /\ UNCHANGED <<organizer, currentMarathonId, registrationFee, marathons,
                      usedAnonymousIds, participants, balance, requests, received>>
  ELSE Revert("recordFinishTime", sender, marathonId)

\* _revealLeaderboard: the ciphertexts it asks the oracle to decrypt, one per
\* participant in the order of registration, as what they decrypt to (the
\* slot of a participant who has not finished is left bytes32(0)).
revealLeaderboard(marathonId) ==
  [i \in 1..Len(participants[marathonId]) |->
     LET participant == participants[marathonId][i]
     IN IF runners[marathonId][participant].hasFinished
        THEN runners[marathonId][participant].encryptedFinishTime
        ELSE 0]

completeMarathon(sender, marathonId) ==
  IF /\ onlyOrganizer(sender)
     /\ marathonExists(marathonId)
     /\ ~marathons[marathonId].isCompleted
     /\ now >= marathons[marathonId].eventDate + 6
  THEN /\ marathons' = [marathons EXCEPT ![marathonId].isCompleted = TRUE,
                                         ![marathonId].isActive = FALSE]
       /\ requests' = Append(requests, [marathonId |-> marathonId,
                                        finishTimes |-> revealLeaderboard(marathonId),
                                        answered |-> FALSE])
       /\ Called("completeMarathon", sender, marathonId, FALSE)
       /\ UNCHANGED <<organizer, currentMarathonId, registrationFee, runners,
                      usedAnonymousIds, leaderboards, participants, balance, received>>
  ELSE Revert("completeMarathon", sender, marathonId)

\* _sortLeaderboard: the two loops from (i, j) on
RECURSIVE BubbleSort(_, _, _)
BubbleSort(leaderboard, i, j) ==
  LET length == Len(leaderboard)
  IN IF i >= length - 1 THEN leaderboard
     ELSE IF j >= length - i - 1 THEN BubbleSort(leaderboard, i + 1, 0)
     ELSE IF leaderboard[j + 1].finishTime > leaderboard[j + 2].finishTime
     THEN BubbleSort([leaderboard EXCEPT ![j + 1] = leaderboard[j + 2],
                                         ![j + 2] = leaderboard[j + 1]], i, j + 1)
     ELSE BubbleSort(leaderboard, i, j + 1)
sortLeaderboard(leaderboard) == BubbleSort(leaderboard, 0, 0)

\* _findRunnerByAnonymousId: the first participant with that id (the ids of
\* the participants of a marathon differ)
findRunnerByAnonymousId(marathonId, anonymousId) ==
  LET found == {i \in 1..Len(participants[marathonId]) :
                  runners[marathonId][participants[marathonId][i]].anonymousId = anonymousId}
  IN IF found = {} THEN "0x0"
     ELSE participants[marathonId][CHOOSE i \in found : \A k \in found : i <= k]

\* _distributePrizes on the sorted leaderboard: place, winner and prize of
\* each transfer it makes
distributePrizes(marathonId, leaderboard) ==
  LET prizePercentages == <<50, 30, 20>>
      participantCount == Len(participants[marathonId])
      places == {i \in 1..3 : i <= participantCount}
  IN {[place |-> i,
       winner |-> findRunnerByAnonymousId(marathonId, leaderboard[i].anonymousId),
       prize |-> (marathons[marathonId].prizePool * prizePercentages[i]) \div 100] :
        i \in {k \in places :
                 /\ k <= Len(leaderboard)
                 /\ findRunnerByAnonymousId(marathonId, leaderboard[k].anonymousId) # "0x0"}}

RECURSIVE Sum(_, _)
Sum(f, S) == IF S = {} THEN 0
             ELSE LET x == CHOOSE y \in S : TRUE IN f[x] + Sum(f, S \ {x})

\* The marathon of the request a callback answers.
marathonOfRequest(r) == requests[r].marathonId
\* The marathon processLeaderboardReveal takes for the one it reveals.
marathonRevealed(r) == currentMarathonId

\* processLeaderboardReveal, called by the oracle with the cleartexts of request
\* r. It reverts where `length - 1` underflows (an empty leaderboard), where
\* _distributePrizes reads past the end of the leaderboard, and where a
\* transfer exceeds the balance.
processLeaderboardReveal(r) ==
  /\ r \in DOMAIN requests
  /\ ~requests[r].answered
  /\ LET marathonId == marathonRevealed(r)
         finishTimes == requests[r].finishTimes
         written == [i \in 1..Len(leaderboards[marathonId]) |->
                       IF i <= Len(finishTimes)
                       THEN [leaderboards[marathonId][i] EXCEPT
                               !.finishTime = finishTimes[i], !.isRevealed = TRUE]
                       ELSE leaderboards[marathonId][i]]
         sorted == sortLeaderboard(written)
         transfers == distributePrizes(marathonId, sorted)
         prizes == [t \in transfers |-> t.prize]
     IN IF /\ Len(written) > 0
           /\ \A i \in 1..3 : i <= Len(participants[marathonId]) => i <= Len(sorted)
           /\ Sum(prizes, transfers) <= balance
        THEN /\ leaderboards' = [leaderboards EXCEPT ![marathonId] = sorted]
             /\ balance' = balance - Sum(prizes, transfers)
             /\ received' = [a \in Accounts |->
                  received[a] + Sum(prizes, {t \in transfers : t.winner = a})]
             /\ requests' = [requests EXCEPT ![r].answered = TRUE]
             /\ Called("processLeaderboardReveal", "oracle", 0, FALSE)
             /\ UNCHANGED <<organizer, currentMarathonId, registrationFee, marathons,
                            runners, usedAnonymousIds, participants>>
        ELSE Revert("processLeaderboardReveal", "oracle", 0)

updateRegistrationFee(sender, newFee) ==
  IF onlyOrganizer(sender)
  THEN /\ registrationFee' = newFee
       /\ Called("updateRegistrationFee", sender, 0, FALSE)
       /\ UNCHANGED <<organizer, currentMarathonId, marathons, runners,
                      usedAnonymousIds, leaderboards, participants, balance,
                      requests, received>>
  ELSE Revert("updateRegistrationFee", sender, 0)

emergencyWithdraw(sender) ==
  IF onlyOrganizer(sender)
  THEN /\ balance' = 0
       /\ received' = [received EXCEPT ![organizer] = @ + balance]
       /\ Called("emergencyWithdraw", sender, 0, FALSE)
       /\ UNCHANGED <<organizer, currentMarathonId, registrationFee, marathons,
                      runners, usedAnonymousIds, leaderboards, participants, requests>>
  ELSE Revert("emergencyWithdraw", sender, 0)

\* cancelMarathon: each participant is sent registrationFee; a transfer the
\* balance does not cover reverts the call.
cancelMarathon(sender, marathonId) ==
  LET refunded == {i \in 1..Len(participants[marathonId]) :
                     runners[marathonId][participants[marathonId][i]].hasRegistered}
  IN IF /\ onlyOrganizer(sender)
        /\ marathonExists(marathonId)
        /\ ~marathons[marathonId].isCompleted
        /\ Cardinality(refunded) * registrationFee <= balance
     THEN /\ marathons' = [marathons EXCEPT ![marathonId].isActive = FALSE,
                                            ![marathonId].prizePool = 0]
          /\ balance' = balance - Cardinality(refunded) * registrationFee
          /\ received' = [a \in Accounts |->
               received[a] + registrationFee *
                 Cardinality({i \in refunded : participants[marathonId][i] = a})]
          /\ Called("cancelMarathon", sender, marathonId, FALSE)
          /\ UNCHANGED <<organizer, currentMarathonId, registrationFee, runners,
                         usedAnonymousIds, leaderboards, participants, requests>>
     ELSE Revert("cancelMarathon", sender, marathonId)

\* A later block
Tick(t) ==
  /\ t > now
  /\ now' = t
  /\ UNCHANGED <<storage, lastCall, sdkVars>>

\* ------------------------------------------------------------ specification
\* The first render, the provider given config c.
MountedWith(c) ==
  /\ instance = [f \in Facades |-> Null]
  /\ ready = [f \in Facades |-> FALSE]
  /\ error = [f \in Facades |-> Null]
  /\ loading = [f \in Facades |-> TRUE]
  /\ config = [f \in Facades |-> IF f = Provider THEN c ELSE EmptyConfig]
  /\ effectPending = [f \in Facades |-> TRUE]
  /\ creates = <<>>
  /\ initFhevmCalls = 0
  /\ busy = [h \in Hooks |-> FALSE]
  /\ hookError = [h \in Hooks |-> Null]
  /\ last = [h \in Hooks |-> Null]
  /\ tasks = <<>>
  /\ Deployed

Mounted == MountedWith(Config("sepolia", Undefined))

Init == Mounted /\ ethereum = TRUE

\* The lifecycle of one useFhevm facade with a config prop and reinitialize.
Next ==
  \/ RunEffect(Provider)
  \/ reinitialize(Provider)
  \/ \E c \in ProviderConfigs : ConfigChange(Provider, c)
  \/ \E k \in DOMAIN creates, ok \in BOOLEAN : InitFhevmSettle(k, ok)
  \/ \E k \in DOMAIN creates, o \in CreateOutcomes : CreateInstanceSettle(k, o)

Spec == Init /\ [][Next]_vars

\* The same lifecycle where every promise createFhevmInstance awaits settles:
\* initFhevm() and createInstance() of each call resolve or reject in the end.
CallsSettle ==
  \A k \in 1..MaxInits :
    /\ WF_vars(\E ok \in BOOLEAN : InitFhevmSettle(k, ok))
    /\ WF_vars(\E o \in CreateOutcomes : CreateInstanceSettle(k, o))

SpecLive == Init /\ [][Next]_vars /\ CallsSettle

\* useEncrypt and useDecrypt, each with the useFhevm() it calls, and a
\* component that calls what they return.
InitHooks == Mounted /\ ethereum \in BOOLEAN

NextHooks ==
  \/ \E h \in Hooks : RunEffect(h)
  \/ \E k \in DOMAIN creates, ok \in BOOLEAN : InitFhevmSettle(k, ok)
  \/ \E k \in DOMAIN creates, o \in CreateOutcomes : CreateInstanceSettle(k, o)
  \/ \E h \in Hooks, fn \in CoreFns : \E a \in HookArguments(fn) :
        Len(tasks) < MaxHookCalls /\ HookCall(h, fn, a[1], a[2])
  \/ TaskStep

SpecHooks == InitHooks /\ [][NextHooks]_vars

\* A FhevmProvider with a config, and under it a component that uses
\* useEncrypt and useDecrypt and makes one call of encrypt or decrypt.
InitShared == ethereum = TRUE /\ \E c \in ProviderConfigs : MountedWith(c)

NextShared ==
  \/ \E f \in Facades : RunEffect(f)
  \/ \E k \in DOMAIN creates, ok \in BOOLEAN : InitFhevmSettle(k, ok)
  \/ \E k \in DOMAIN creates, o \in CreateOutcomes : CreateInstanceSettle(k, o)
  \/ \E h \in Hooks, fn \in {"encryptValue", "decryptValue"} :
        \E a \in HookArguments(fn) :
          Len(tasks) < MaxHookCalls /\ HookCall(h, fn, a[1], a[2])
  \/ TaskStep

SpecShared == InitShared /\ [][NextShared]_vars

\* An application that creates an instance, encrypts a uint64 with it and
\* decrypts the handle it got, against a signer that signs and a gateway
\* that answers with the plaintext the handle stands for.
RoundTripValues == {0, 1, 7, 42, 255, 1000}

\* The encryptValue call that returned the handle a request names.
EncryptedAs(handle) ==
  {e \in DOMAIN tasks :
     /\ tasks[e].fn = "encryptValue" /\ tasks[e].pc = "resolved"
     /\ tasks[e].settled.handles # <<>>
     /\ tasks[e].settled.handles[1] = handle}

\* The stub gateway's answer to the request task id has in flight.
StubGatewayAnswers(id) ==
  LET t == tasks[id]
      handle == t.fetchReqs[Len(t.fetchReqs)].body.handle
  IN {Response(200, "OK", TRUE, toString(tasks[e].cur.numericValue.n)) :
        e \in EncryptedAs(handle)}

NextRoundTrip ==
  \/ \E cfg \in CoreConfigs : CoreCreate(cfg)
  \/ \E k \in DOMAIN creates, ok \in BOOLEAN : InitFhevmSettle(k, ok)
  \/ \E k \in DOMAIN creates, o \in CreateOutcomes : CreateInstanceSettle(k, o)
  \/ \E k \in DOMAIN creates, n \in RoundTripValues :
        /\ tasks = <<>>
        /\ CoreCall("encryptValue", k, <<[value |-> JsNumber(n), type |-> "uint64"]>>,
                    NoOptions)
  \/ EncryptStep
  \/ \E k \in DOMAIN creates, e \in DOMAIN tasks, o \in Options(GatewayUrls) :
        /\ Len(tasks) = 1
        /\ tasks[e].pc = "resolved" /\ tasks[e].settled.handles # <<>>
        /\ CoreCall("decryptValue", k, <<JsString(tasks[e].settled.handles[1])>>, o)
  \/ \E id \in DOMAIN tasks : GetSignerSettle(id, TRUE)
  \/ \E id \in DOMAIN tasks : SignTypedDataSettle(id, TRUE)
  \/ \E id \in DOMAIN tasks : At(id, "fetch") /\
        \E response \in StubGatewayAnswers(id) : FetchSettle(id, response)
  \/ \E id \in DOMAIN tasks : JsonSettle(id)

SpecRoundTrip == Init /\ [][NextRoundTrip]_vars

\* useEncrypt and useDecrypt with a component that calls encrypt or decrypt
\* again while an earlier call is still in flight.
NextOverlap ==
  \/ \E h \in Hooks : RunEffect(h)
  \/ \E k \in DOMAIN creates, ok \in BOOLEAN : InitFhevmSettle(k, ok)
  \/ \E k \in DOMAIN creates, o \in CreateOutcomes : CreateInstanceSettle(k, o)
  \/ \E h \in Hooks, fn \in {"encryptValue", "decryptValue"} :
        \E a \in HookArguments(fn) : HookCall(h, fn, a[1], a[2])
  \/ TaskStep

SpecOverlap == Init /\ [][NextOverlap]_vars

\* An application that calls verifyDecryptSignature once, with a signature
\* some wallet made over some public key (or one no wallet made) and with the
\* address it expects, in some spelling.
Alice == <<"0", "x", "A", "b", "1", "c">>
Bob == <<"0", "x", "A", "b", "1", "d">>
Carol == <<"0", "x", "5", "5", "5", "5">>
Signers == {Alice, Bob, Carol}
PublicKeys == {"engine-public-key", "another-public-key"}
Signatures ==
  {[tag |-> "signature", signer |-> a, message |-> m] : a \in Signers, m \in PublicKeys}
    \cup {[tag |-> "truncated", signer |-> <<>>, message |-> ""],
          [tag |-> "not hex", signer |-> <<>>, message |-> ""]}
ExpectedAddresses ==
  {JsString(a) : a \in Signers}
    \cup {JsString(toLowerCase(Alice)), JsString(<<"0", "X", "A", "B", "1", "C">>),
          JsString(<<"0", "x", "A", "b", "1">>), JsString(<<>>),
          [t |-> "undefined", n |-> 0, s |-> <<>>]}

VerifyCall(signature, publicKey, expectedAddress) ==
  /\ tasks = <<>>
  /\ tasks' = Append(tasks,
        Resolve(NewTask("core", Null, "verifyDecryptSignature", Null,
                        <<signature, publicKey, expectedAddress>>, NoOptions),
                JsBoolean(verifyDecryptSignature(signature, publicKey, expectedAddress))))
  /\ UNCHANGED <<facadeVars, createVars, hookVars, ethereum, contractVars>>

NextVerify ==
  \E signature \in Signatures, publicKey \in PublicKeys,
     expectedAddress \in ExpectedAddresses :
    VerifyCall(signature, publicKey, expectedAddress)

SpecVerify == Init /\ [][NextVerify]_vars

\* An application that creates an instance and decrypts handles of one
\* contract with it, each call on its own.
InitCore == Mounted /\ ethereum \in BOOLEAN

NextDecrypt ==
  \/ \E cfg \in CoreConfigs : CoreCreate(cfg)
  \/ \E k \in DOMAIN creates, ok \in BOOLEAN : InitFhevmSettle(k, ok)
  \/ \E k \in DOMAIN creates, o \in CreateOutcomes : CreateInstanceSettle(k, o)
  \/ \E k \in DOMAIN creates : \E a \in Arguments("decryptValue", GatewayUrls) :
        /\ tasks # <<>> => a[2] = tasks[1].opts
        /\ CoreCall("decryptValue", k, a[1], a[2])
  \/ DecryptStep

SpecDecrypt == InitCore /\ [][NextDecrypt]_vars

\* An application that creates an instance and makes one batch call with it.
NextBatch ==
  \/ \E cfg \in CoreConfigs : CoreCreate(cfg)
  \/ \E k \in DOMAIN creates, ok \in BOOLEAN : InitFhevmSettle(k, ok)
  \/ \E k \in DOMAIN creates, o \in CreateOutcomes : CreateInstanceSettle(k, o)
  \/ \E fn \in {"encryptBatch", "decryptBatch"}, k \in DOMAIN creates :
        \E a \in Arguments(fn, {Undefined}) :
          tasks = <<>> /\ CoreCall(fn, k, a[1], a[2])
  \/ TaskStep

SpecBatch == InitCore /\ [][NextBatch]_vars

\* An application that calls createFhevmInstance with one of many configs.
Networks == {Undefined, "sepolia", "localhost", "mainnet", "constructor"}
CreateConfigs ==
  {[network |-> n, gatewayUrl |-> g, publicKey |-> Undefined,
    kmsContractAddress |-> kms, aclContractAddress |-> acl] :
     n \in Networks, g \in GatewayUrls,
     kms \in {Undefined, "0x00000000000000000000000000000000000000C1"},
     acl \in {Undefined, "0x00000000000000000000000000000000000000C2"}}

NextCreate ==
  \/ \E cfg \in CreateConfigs : CoreCreate(cfg)
  \/ \E k \in DOMAIN creates, ok \in BOOLEAN : InitFhevmSettle(k, ok)
  \/ \E k \in DOMAIN creates, o \in EngineOutcomes : CreateInstanceSettle(k, o)

SpecCreate == InitCore /\ [][NextCreate]_vars

\* An application that creates an instance and makes one call of encryptValue
\* or decryptValue with it.
NextValue ==
  \/ CoreCreate(EmptyConfig)
  \/ \E k \in DOMAIN creates, ok \in BOOLEAN : InitFhevmSettle(k, ok)
  \/ \E k \in DOMAIN creates, o \in EngineOutcomes : CreateInstanceSettle(k, o)
  \/ \E fn \in {"encryptValue", "decryptValue"}, k \in DOMAIN creates :
        \E a \in ValueArguments(fn) :
          tasks = <<>> /\ CoreCall(fn, k, a[1], a[2])
  \/ TaskStep

SpecValue == InitCore /\ [][NextValue]_vars

\* AnonymousMarathon with its organizer and one more account: both send
\* every kind of transaction, the other account registers as a runner, and
\* the oracle answers the decryption requests.
NextMarathon ==
  \/ \E sender \in {Deployer, "0xA11CE"}, maxParticipants \in {0, 1} :
        createMarathon(sender, 2, 1, maxParticipants)
  \/ \E marathonId \in MarathonIds :
        registerForMarathon("0xA11CE", marathonId, 10, 5, "0xaa")
  \/ \E sender \in {Deployer, "0xA11CE"}, marathonId \in {0, 1} :
        recordFinishTime(sender, marathonId, "0xA11CE", 200)
  \/ \E sender \in {Deployer, "0xA11CE"}, marathonId \in {0, 1} :
        completeMarathon(sender, marathonId)
  \/ \E r \in DOMAIN requests : processLeaderboardReveal(r)
  \/ \E sender \in {Deployer, "0xA11CE"} : updateRegistrationFee(sender, 20)
  \/ \E sender \in {Deployer, "0xA11CE"} : emergencyWithdraw(sender)
  \/ \E sender \in {Deployer, "0xA11CE"}, marathonId \in {0, 1} :
        cancelMarathon(sender, marathonId)
  \/ \E t \in {2, 8} : Tick(t)

SpecMarathon == Init /\ [][NextMarathon]_vars

\* AnonymousMarathon with two accounts that register as runners for the
\* marathons the organizer creates, with the same or another anonymous id,
\* with the fee, more than the fee or nothing, before and after the deadline,
\* the cancellation and the completion of the first marathon. What a
\* registration sends: sender, value, experience level and anonymous id.
Registrations ==
  {<<"0xA11CE", 10, 5, "0xaa">>, <<"0xA11CE", 20, 5, "0xaa">>,
   <<"0xB0B", 10, 5, "0xaa">>, <<"0xB0B", 10, 5, "0xbb">>,
   <<"0xB0B", 0, 5, "0xbb">>, <<"0xB0B", 10, 11, "0xbb">>,
   <<"0xB0B", 10, 5, ZeroId>>}

NextRegistration ==
  \/ \E maxParticipants \in {1, 2} : createMarathon(Deployer, 2, 1, maxParticipants)
  \/ \E marathonId \in MarathonIds, r \in Registrations :
        /\ marathonId > 1 => r = <<"0xA11CE", 10, 5, "0xaa">>
        /\ registerForMarathon(r[1], marathonId, r[2], r[3], r[4])
  \/ cancelMarathon(Deployer, 1)
  \/ completeMarathon(Deployer, 1)
  \/ \E t \in {1, 8} : Tick(t)

SpecRegistration == Init /\ [][NextRegistration]_vars

\* AnonymousMarathon with two runners, who register for the first two
\* marathons the organizer creates (one held at 2, the later ones at 10) and
\* finish in any order, or not at all, the completion of the first marathon
\* and the oracle's callback, before or after the organizer has created the
\* next marathon.
NextReveal ==
  \/ \E eventDate \in {2, 10} :
        /\ currentMarathonId = 0 <=> eventDate = 2
        /\ createMarathon(Deployer, eventDate, eventDate - 1, 2)
  \/ \E marathonId \in {1, 2}, r \in {<<"0xA11CE", "0xaa">>, <<"0xB0B", "0xbb">>} :
        registerForMarathon(r[1], marathonId, 10, 5, r[2])
  \/ \E marathonId \in {1, 2}, f \in {<<"0xA11CE", 250>>, <<"0xB0B", 200>>} :
        recordFinishTime(Deployer, marathonId, f[1], f[2])
  \/ completeMarathon(Deployer, 1)
  \/ \E r \in DOMAIN requests : processLeaderboardReveal(r)
  \/ \E t \in {8, 10} : Tick(t)

SpecReveal == Init /\ [][NextReveal]_vars

\* ------------------------------------------------------------------ claims
Events(t) == {t.trace[p].ev : p \in 1..Len(t.trace)}
HookTasks == {id \in DOMAIN tasks : tasks[id].via \in Hooks}
BatchTasks == {id \in DOMAIN tasks : IsBatch(tasks[id].fn)}
DecryptTasks == {id \in DOMAIN tasks : tasks[id].fn = "decryptValue"}

\* C1: a call of encrypt, encryptMultiple, decrypt or decryptMultiple made
\* while the hook's ready is false or its instance is null rejects with the
\* not-ready error and does nothing else: no engine call, no public-key read,
\* no signing request, no gateway request.
C1_ReadinessGating ==
  \A id \in HookTasks :
    LET t == tasks[id]
    IN (t.gate.instance = Null \/ ~t.gate.ready) =>
         /\ t.pc = "rejected"
         /\ t.settled = NotReadyError
         /\ t.trace = <<>>
         /\ t.signReqs = <<>>
         /\ t.fetchReqs = <<>>

\* C1's case: a hook holds an instance without a keypair (ready is false) and
\* a call was turned away.
C1_Witness ==
  \E id \in HookTasks :
    /\ tasks[id].gate.instance # Null
    /\ ~tasks[id].gate.ready
    /\ tasks[id].pc = "rejected"

\* C2: once a later initialization of a facade has started, the completion of
\* an earlier one writes none of instance, ready, error, loading; and when no
\* initialization is in flight the facade shows the outcome of the one that
\* started last.
LastCall(f) == CHOOSE k \in CallsOf(f) : \A j \in CallsOf(f) : j <= k
OutcomeShown(f) ==
  LET r == creates[LastCall(f)].result
  IN /\ ~loading[f]
     /\ IF r.tag = "Error"
        THEN instance[f] = Null /\ ~ready[f] /\ error[f] = r
        ELSE instance[f] = r /\ ready[f] = isInstanceReady(r) /\ error[f] = Null
C2_NoStaleOverwrite ==
  /\ [][\A k \in DOMAIN creates :
          (Pending(k) /\ ~Pending(k)' /\ LastCall(creates[k].owner) # k)
            => UNCHANGED <<instance, ready, error, loading>>]_vars
  /\ [](\A f \in Facades : (CallsOf(f) # {} /\ InFlight(f) = {}) => OutcomeShown(f))

\* C3: at most one createFhevmInstance call of a facade is in flight.
C3_AtMostOneInFlight == \A f \in Facades : Cardinality(InFlight(f)) <= 1

\* C4: a batch call in which the call for element k throws does nothing more:
\* it rejects with what element k threw (no array, whatever the elements
\* before k returned) and starts the call for no element after k; and a batch
\* rejects for no other reason.
C4_BatchFailFast ==
  \A id \in BatchTasks :
    LET t == tasks[id]
        n == Len(t.trace)
    IN /\ \A p \in 1..n :
            t.trace[p].ev = "throw" =>
              /\ p = n
              /\ t.pc = "rejected"
              /\ t.settled = t.trace[p].e
              /\ \A q \in 1..n : t.trace[q].i <= t.trace[p].i
       /\ t.pc = "rejected" => (n > 0 /\ t.trace[n].ev = "throw")

\* C4's case: the second of three elements failed, after the first returned.
C4_Witness ==
  \E id \in BatchTasks :
    /\ tasks[id].pc = "rejected"
    /\ tasks[id].results # <<>>
    /\ tasks[id].i < Len(tasks[id].items)

\* C5: in a batch call nothing is done for element i+1 before the call for
\* element i returned, and the array a batch resolves with has one entry per
\* input, the i-th being what the call for the i-th input returned.
C5_BatchOrder ==
  \A id \in BatchTasks :
    LET t == tasks[id]
        n == Len(t.trace)
    IN /\ \A p \in 1..n :
            t.trace[p].i > 1 =>
              \E q \in 1..(p - 1) :
                t.trace[q].ev = "return" /\ t.trace[q].i = t.trace[p].i - 1
       /\ \A p, q \in 1..n : p < q => t.trace[p].i <= t.trace[q].i
       /\ t.pc = "resolved" =>
            /\ t.settled.tag = "Array"
            /\ Len(t.settled.elems) = Len(t.items)
            /\ \A i \in 1..Len(t.items) :
                 \E p \in 1..n : /\ t.trace[p].ev = "return"
                                 /\ t.trace[p].i = i
                                 /\ t.trace[p].e = t.settled.elems[i]

\* C5's case: a batch resolved with two results that differ.
C5_Witness ==
  \E id \in BatchTasks :
    /\ tasks[id].pc = "resolved"
    /\ Len(tasks[id].settled.elems) >= 2
    /\ tasks[id].settled.elems[1] # tasks[id].settled.elems[2]

\* C6: in a decryptValue call the gateway request is sent only after the
\* wallet signed, and carries that signature; the response is parsed only
\* after a response with a success status came; the call resolves, with a
\* DecryptResult, only after all of these; without a signature no request
\* is sent.
C6_DecryptStepOrder ==
  \A id \in DecryptTasks :
    LET t == tasks[id]
        n == Len(t.trace)
    IN /\ \A p \in 1..n :
            t.trace[p].ev = "fetch" => \E q \in 1..(p - 1) : t.trace[q].ev = "signed"
       /\ t.fetchReqs # <<>> =>
            /\ t.signReqs # <<>>
            /\ t.fetchReqs[1].body.signature =
                 Signature(t.signReqs[1].domain, t.signReqs[1].message)
       /\ \A p \in 1..n :
            t.trace[p].ev \in {"json", "return"} =>
              /\ \E q \in 1..(p - 1) : t.trace[q].ev = "response"
              /\ Ok(t.cur.response)
       /\ t.pc = "resolved" =>
            /\ {"signed", "fetch", "response"} \subseteq Events(t)
            /\ t.settled.tag = "DecryptResult"
       /\ "signed" \notin Events(t) => t.fetchReqs = <<>>

\* C6's case: a decryptValue call went through all steps and resolved.
C6_Witness == \E id \in DecryptTasks : tasks[id].pc = "resolved"

\* The tasks whose gateway request was answered with a failure status.
GatewayFailed == {id \in DecryptTasks : /\ tasks[id].cur.response # Null
                                        /\ ~Ok(tasks[id].cur.response)}

C8_GatewayUrlResolution ==
  \A id \in DecryptTasks :
    LET t == tasks[id]
        resolved == IF t.opts.gatewayUrl # Undefined THEN t.opts.gatewayUrl
                    ELSE IF t.inst.params.gatewayUrl # Undefined
                    THEN t.inst.params.gatewayUrl
                    ELSE "https://gateway.sepolia.zama.ai"
    IN \A p \in 1..Len(t.fetchReqs) : t.fetchReqs[p].url = resolved \o "/reencrypt"

\* C9 as claimed: every decryptValue call that has settled made exactly one
\* signing request and exactly one gateway request, and a call that resolved
\* returns the value of the response to its own request.
C9_ExactlyOneRoundTrip ==
  \A id \in DecryptTasks :
    LET t == tasks[id]
    IN IsSettled(t) =>
         /\ Len(t.signReqs) = 1
         /\ Len(t.fetchReqs) = 1
         /\ t.pc = "resolved" =>
              t.settled.value = JsBigInt(ParseDigits(t.cur.response.body.value))

\* C9 as amended: a decryptValue call sends at most one signing request and at
\* most one gateway request, whatever fails (none after a step before it
\* failed); a call that resolves has sent exactly one of each and returns the
\* value of the response to its own request.
C9_NoRetryNoCache ==
  \A id \in DecryptTasks :
    LET t == tasks[id]
    IN /\ Len(t.signReqs) <= 1
       /\ Len(t.fetchReqs) <= 1
       /\ t.pc = "resolved" =>
            /\ Len(t.signReqs) = 1
            /\ Len(t.fetchReqs) = 1
            /\ t.cur.response # Null
            /\ t.settled.value = JsBigInt(ParseDigits(t.cur.response.body.value))

\* C9's case: two calls for the same handle resolved, each after a signing
\* request and a gateway request of its own.
C9_Witness ==
  \E a, b \in DecryptTasks :
    /\ a # b
    /\ tasks[a].pc = "resolved" /\ tasks[b].pc = "resolved"
    /\ tasks[a].cur.handleBigInt = tasks[b].cur.handleBigInt
    /\ Len(tasks[a].fetchReqs) = 1 /\ Len(tasks[b].fetchReqs) = 1

\* C10: the chainId of every typed-data domain decryptValue asks the wallet to
\* sign is the chain id of the network the instance was created for: Sepolia's
\* for an instance on Sepolia, and not Sepolia's for an instance on a local
\* node.
C10_ChainBinding ==
  \A id \in DecryptTasks :
    LET t == tasks[id]
    IN \A p \in 1..Len(t.signReqs) :
         (t.signReqs[p].domain.chainId = SepoliaChainId) <=> (t.inst.network = "sepolia")
\* The number a handle argument stands for.
HandleNumber(handle) == IF handle.t = "string" THEN ParseDigits(handle.s) ELSE handle.n

\* The decryptValue calls that asked the wallet to sign.
SigningTasks == {id \in DecryptTasks : tasks[id].signReqs # <<>>}

\* C11: every gateway request of decryptValue carries the signature of the
\* domain and message the wallet was asked to sign; its contractAddress is the
\* domain's verifyingContract (options.contractAddress), its handle is the
\* handle of the signed message, the base-10 string of the handle argument,
\* and its publicKey is the public key of the signed message. Two calls whose
\* handles stand for the same number, one a string and one a bigint, ask for
\* the same signature and send the same request body.
C11_RequestMatchesSignature ==
  /\ \A id \in DecryptTasks :
       LET t == tasks[id]
       IN \A p \in 1..Len(t.fetchReqs) :
            LET req == t.fetchReqs[p].body
            IN /\ t.signReqs # <<>>
               /\ req.signature = Signature(t.signReqs[1].domain, t.signReqs[1].message)
               /\ req.contractAddress = req.signature.domain.verifyingContract
               /\ req.contractAddress = t.opts.contractAddress
               /\ req.handle = req.signature.message.handle
               /\ req.handle = toString(HandleNumber(t.items[1]))
               /\ req.publicKey = req.signature.message.publicKey
               /\ req.publicKey = t.inst.publicKey
  /\ \A a, b \in SigningTasks :
       (/\ HandleNumber(tasks[a].items[1]) = HandleNumber(tasks[b].items[1])
        /\ tasks[a].inst = tasks[b].inst
        /\ tasks[a].opts = tasks[b].opts)
         => /\ tasks[a].signReqs[1].message = tasks[b].signReqs[1].message
            /\ tasks[a].signReqs[1].domain = tasks[b].signReqs[1].domain
            /\ \A p \in 1..Len(tasks[a].fetchReqs), q \in 1..Len(tasks[b].fetchReqs) :
                 tasks[a].fetchReqs[p].body = tasks[b].fetchReqs[q].body

\* C11's case: a string handle and the equal bigint handle were both sent.
C11_Witness ==
  \E a, b \in DecryptTasks :
    /\ tasks[a].items[1].t = "string" /\ tasks[b].items[1].t = "bigint"
    /\ tasks[a].fetchReqs # <<>> /\ tasks[b].fetchReqs # <<>>
    /\ tasks[a].fetchReqs[1].body = tasks[b].fetchReqs[1].body

\* The encryptValue calls, and the encrypt_<type> calls each made of the engine.
EncryptTasks == {id \in DOMAIN tasks : tasks[id].fn = "encryptValue"}
Primitives == {"encrypt_" \o type : type \in EncryptionTypes}
EngineCalls(t) == {p \in 1..Len(t.trace) : t.trace[p].ev \in Primitives}

\* C12: every EncryptedValue encryptValue returns has a handle and data that
\* is not empty (a primitive that yields no handles or no data makes the call
\* reject).
C12_NonEmptyOutput ==
  \A id \in EncryptTasks :
    tasks[id].pc = "resolved" =>
      /\ tasks[id].settled.handles # <<>>
      /\ tasks[id].settled.data # <<>>

\* The calls of encryptValue and decryptValue.
ValueTasks == {id \in DOMAIN tasks : ~IsBatch(tasks[id].fn)}

\* C13: encryptValue and decryptValue called with an instance that has no
\* keypair reject with the error that says so, and do nothing else: no engine
\* primitive is called, the public key is not read, no signer is asked for,
\* no signing request and no gateway request is made.
C13_KeypairPrecondition ==
  \A id \in ValueTasks :
    LET t == tasks[id]
    IN ~t.inst.keypair =>
         /\ t.pc = "rejected"
         /\ t.settled =
              IF IsDecrypt(t.fn)
              THEN Err("Decryption failed: Instance does not have a keypair")
              ELSE Err("Encryption failed: Instance does not have a keypair. "
                       \o "Initialize instance first.")
         /\ EngineCalls(t) = {}
         /\ Events(t) \cap {"getPublicKey", "getSigner", "signTypedData", "fetch"} = {}
         /\ t.signReqs = <<>>
         /\ t.fetchReqs = <<>>

\* C13's case: encryptValue was called with an instance without a keypair.
C13_Witness ==
  \E id \in EncryptTasks : ~tasks[id].inst.keypair /\ tasks[id].pc = "rejected"

\* The encryptValue calls that got past the keypair test.
KeyedEncryptTasks == {id \in EncryptTasks : tasks[id].inst.keypair}

\* C14: for type address encryptValue takes a string only, for types bytes and
\* bytes256 a byte array or a string (handed on as its bytes) only; a number,
\* a bigint or a boolean for one of these types makes it reject with a
\* conversion error, and no engine primitive is called.
C14_NonNumericCoercion ==
  \A id \in KeyedEncryptTasks :
    LET t == tasks[id]
        item == t.items[1]
        has == encryptMethod(item.type) \in t.inst.methods
    IN /\ (item.type \in {"address", "bytes", "bytes256"}
             /\ item.value.t \in {"number", "bigint", "boolean"})
            => (t.pc = "rejected" /\ EngineCalls(t) = {})
       /\ (item.type \in {"bytes", "bytes256"}
             /\ item.value.t \in {"number", "bigint", "boolean"})
            => t.settled = Err("Encryption failed: Bytes type requires Uint8Array or string")
       /\ (item.type \in {"bytes", "bytes256"}
             /\ item.value.t \in {"string", "Uint8Array"} /\ has)
            => (EngineCalls(t) # {} /\ t.cur.numericValue = JsBytes(item.value.s))
       /\ (item.type = "address" /\ item.value.t = "string" /\ has)
            => (EngineCalls(t) # {} /\ t.cur.numericValue = item.value)

\* Whether n fits the unsigned width of `type` (the widths above 16 bits hold
\* every number that is not negative and that a call is made with here).
UintTypes == {"uint4", "uint8", "uint16", "uint32", "uint64", "uint128", "uint256"}
FitsWidth(type, n) ==
  /\ n >= 0
  /\ type = "uint4" => n <= 15
  /\ type = "uint8" => n <= 255
  /\ type = "uint16" => n <= 65535

\* C15: encryptValue for a type uintN with a number or bigint below 0 or above
\* 2^N - 1 rejects, and the engine primitive is not called with that value.
C15_WidthRangeCheck ==
  \A id \in KeyedEncryptTasks :
    LET t == tasks[id]
        item == t.items[1]
    IN (/\ item.type \in UintTypes
        /\ item.value.t \in {"number", "bigint"}
        /\ ~FitsWidth(item.type, item.value.n))
         => (t.pc = "rejected" /\ EngineCalls(t) = {})

\* C16: an encryptValue call calls at most one engine primitive, at most once,
\* and only encrypt_<type> for its type; a call that resolves has called it.
\* When the instance has no encrypt_<type> (and the value converted) the call
\* rejects with the error that names the type, and no primitive is called.
C16_TypeDispatch ==
  \A id \in EncryptTasks :
    LET t == tasks[id]
        item == t.items[1]
    IN /\ Cardinality(EngineCalls(t)) <= 1
       /\ \A p \in EngineCalls(t) : t.trace[p].ev = "encrypt_" \o item.type
       /\ t.pc = "resolved" => Cardinality(EngineCalls(t)) = 1
       /\ (/\ t.inst.keypair
           /\ "tag" \notin DOMAIN convertToNumeric(item.value, item.type)
           /\ ("encrypt_" \o item.type) \notin t.inst.methods)
            => /\ t.pc = "rejected"
               /\ t.settled = Err("Encryption failed: Encryption method for type "
                                  \o item.type \o " not found")
               /\ EngineCalls(t) = {}

\* C16's case: a call for type uint256 resolved.
C16_Witness ==
  \E id \in EncryptTasks :
    /\ tasks[id].items[1].type = "uint256"
    /\ tasks[id].pc = "resolved"
    /\ EngineCalls(tasks[id]) # {}

\* The createFhevmInstance calls that called createInstance.
Constructions == {k \in DOMAIN creates : creates[k].args # Null}

\* C17: createInstance is called with the caller's gatewayUrl,
\* kmsContractAddress and aclContractAddress where the config sets them, and
\* else with those of the row of the network: the localhost row for network
\* localhost, the sepolia row for every other name and for none.
C17_ConfigResolution ==
  \A k \in Constructions :
    LET cfg == creates[k].config
        row == IF cfg.network = "localhost"
               THEN [gatewayUrl |-> "http://localhost:8545",
                     kmsContractAddress |-> "0x0000000000000000000000000000000000000000",
                     aclContractAddress |-> "0x0000000000000000000000000000000000000000"]
               ELSE [gatewayUrl |-> "https://gateway.sepolia.zama.ai",
                     kmsContractAddress |-> "0x9D6891A6240D6130c54ae243d8005063D05fE14b",
                     aclContractAddress |-> "0xFee8407e2f5e3Ee68ad77cAE98c434e637f516e5"]
    IN \A field \in {"gatewayUrl", "kmsContractAddress", "aclContractAddress"} :
         creates[k].args[field] = IF cfg[field] # Undefined THEN cfg[field] ELSE row[field]

\* C18: whatever createFhevmInstance calls are made (the mount-time one,
\* those of config changes and of reinitialize), initFhevm is called at most
\* once.
C18_BootstrapOnce == initFhevmCalls <= 1

\* How often call k did `step`.
Times(k, step) ==
  Cardinality({p \in 1..Len(creates[k].steps) : creates[k].steps[p] = step})

\* C19: a createFhevmInstance call calls initFhevm once and createInstance at
\* most once; when one of them throws the call rejects with the error
\* "Failed to create FHEVM instance: ..." of that failure, yields no instance
\* and calls nothing more; when initFhevm throws, createInstance is not
\* called.
C19_CreateFailure ==
  \A k \in DOMAIN creates :
    LET c == creates[k]
        threw == {step \in {"initFhevm threw", "createInstance threw"} : Times(k, step) > 0}
    IN /\ Times(k, "initFhevm") = 1
       /\ Times(k, "createInstance") <= 1
       /\ Times(k, "initFhevm threw") > 0 =>
            /\ Times(k, "createInstance") = 0
            /\ c.steps[Len(c.steps)] = "initFhevm threw"
            /\ c.result = Err("Failed to create FHEVM instance: initFhevm failed")
       /\ Times(k, "createInstance threw") > 0 =>
            /\ c.steps[Len(c.steps)] = "createInstance threw"
            /\ c.result = Err("Failed to create FHEVM instance: createInstance failed")
       /\ threw # {} <=> c.pc = "rejected"
       /\ c.pc = "rejected" => c.result.tag = "Error"

\* C19's case: initFhevm threw and the call rejected.
C19_Witness ==
  \E k \in DOMAIN creates :
    /\ creates[k].steps = <<"initFhevm", "initFhevm threw">>
    /\ creates[k].pc = "rejected"

\* C20: every instance a createFhevmInstance call resolved with, and every
\* instance a facade holds, has a keypair (isInstanceReady).
C20_NoPartialInstance ==
  /\ \A k \in DOMAIN creates :
       creates[k].pc = "resolved" => isInstanceReady(creates[k].result)
  /\ \A f \in Facades : instance[f] # Null => isInstanceReady(instance[f])


\* C21: from its first initialization on, loading of a facade is true exactly
\* when a createFhevmInstance call of that facade is in flight, also while two
\* initializations overlap and the first of them has completed.
C21_LoadingFlag ==
  \A f \in Facades : CallsOf(f) # {} => (loading[f] <=> InFlight(f) # {})

\* C22: ready of a facade is true exactly when the facade holds a non-null
\* instance that passes isInstanceReady; and the step in which an
\* initialization fails leaves ready false and instance null.
FailsNow(k) == Pending(k) /\ creates'[k].pc = "rejected"
C22_ReadyFlag ==
  /\ [](\A f \in Facades : ready[f] <=> (instance[f] # Null /\ isInstanceReady(instance[f])))
  /\ [][\A k \in DOMAIN creates :
          (FailsNow(k) /\ creates[k].owner \in Facades)
            => (~ready'[creates[k].owner] /\ instance'[creates[k].owner] = Null)]_vars
C22_Witness ==
  /\ instance[Provider] = Null /\ ~ready[Provider] /\ error[Provider] # Null
  /\ \E k \in CallsOf(Provider) :
        creates[k].pc = "resolved" /\ isInstanceReady(creates[k].result)
  /\ \E k \in CallsOf(Provider) :
        creates[k].pc = "resolved" /\ ~isInstanceReady(creates[k].result)

\* C23: the step that starts an initialization sets error to null; and when
\* no initialization of a facade is in flight, error is the failure of the
\* initialization that started last if that one failed, and null if it
\* succeeded.
C23_ErrorField ==
  /\ [][\A f \in Facades : CallsOf(f)' # CallsOf(f) => error'[f] = Null]_vars
  /\ [](\A f \in Facades :
         (CallsOf(f) # {} /\ InFlight(f) = {})
           => error[f] = (IF creates[LastCall(f)].pc = "rejected"
                          THEN creates[LastCall(f)].result ELSE Null))


\* C24: the promise of initialize / reinitialize never rejects, and the step
\* in which a creation call of a facade fails stores that failure in the
\* facade's error; the step in which an encrypt or decrypt call that passed
\* the hook's ready gate fails stores that failure in the hook's error, and
\* the call's promise rejects with the same failure.
PassedGate(t) == t.via \in Hooks /\ t.gate.instance # Null /\ t.gate.ready
RejectsNow(id) ==
  /\ id \in DOMAIN tasks' /\ tasks'[id].pc = "rejected"
  /\ id \in DOMAIN tasks => tasks[id].pc # "rejected"
C24_ErrorPropagation ==
  /\ [](\A k \in DOMAIN creates : creates[k].caller # "rejected")
  /\ [][\A k \in DOMAIN creates :
          (FailsNow(k) /\ creates[k].owner \in Facades)
            => /\ error'[creates[k].owner] = creates'[k].result
               /\ creates'[k].result.tag = "Error"
               /\ creates'[k].caller = "resolved"]_vars
  /\ [][\A id \in DOMAIN tasks' :
          (RejectsNow(id) /\ PassedGate(tasks'[id]))
            => /\ tasks'[id].settled.tag = "Error"
               /\ hookError'[tasks'[id].via] = tasks'[id].settled]_vars
C24_Witness ==
  /\ \E id \in HookTasks :
        /\ PassedGate(tasks[id]) /\ tasks[id].pc = "rejected"
        /\ hookError[tasks[id].via] = tasks[id].settled
  /\ \E k \in DOMAIN creates :
        /\ creates[k].pc = "rejected" /\ creates[k].caller = "resolved"
        /\ error[creates[k].owner] = creates[k].result


\* C25: a step that starts an initialization (reinitialize, the effect) leaves
\* loading true; and, every creation call settling in the end, a facade with
\* an initialization in flight reaches a state with loading false that is
\* ready (ready, instance set, error null) or error (error set, ready false,
\* instance null).
ReadyState(f) == ready[f] /\ instance[f] # Null /\ error[f] = Null
ErrorState(f) == error[f] # Null /\ ~ready[f] /\ instance[f] = Null
C25_LifecycleProgress ==
  /\ [][\A f \in Facades : CallsOf(f)' # CallsOf(f) => loading'[f]]_vars
  /\ \A f \in Facades :
        (InFlight(f) # {}) ~> (~loading[f] /\ (ReadyState(f) \/ ErrorState(f)))


\* C26: under a FhevmProvider, useEncrypt and useDecrypt create no instance of
\* their own, and a call of encrypt or decrypt is gated by the provider's
\* ready and operates on the provider's instance.
C26_ProviderSharing ==
  /\ [](\A h \in Hooks : CallsOf(h) = {})
  /\ [][\A id \in DOMAIN tasks' :
          (id \notin DOMAIN tasks /\ tasks'[id].via \in Hooks)
            => /\ tasks'[id].gate.instance = instance[Provider]
               /\ tasks'[id].gate.ready = ready[Provider]
               /\ tasks'[id].inst = instance[Provider]]_vars


\* C27: with an instance that has its keypair, a signer that signs and a
\* gateway that answers with the original plaintext, decryptValue of the
\* handle (handles[0], a string) that encryptValue(n, 'uint64') returned
\* resolves with a DecryptResult whose value is the integer n; so for n = 42.
C27_RoundTrip ==
  \A d \in DecryptTasks, e \in EncryptTasks :
    LET dec == tasks[d]
        enc == tasks[e]
    IN (/\ enc.pc = "resolved" /\ enc.settled.handles # <<>>
        /\ dec.items[1] = JsString(enc.settled.handles[1])
        /\ isInstanceReady(dec.inst) /\ IsSettled(dec))
         => /\ dec.pc = "resolved"
            /\ dec.settled.tag = "DecryptResult"
            /\ dec.settled.value = JsBigInt(enc.items[1].value.n)
C27_Witness ==
  \E d \in DecryptTasks, e \in EncryptTasks :
    /\ tasks[e].items[1] = [value |-> JsNumber(42), type |-> "uint64"]
    /\ tasks[e].pc = "resolved"
    /\ tasks[d].items[1] = JsString(tasks[e].settled.handles[1])
    /\ tasks[d].pc = "resolved"
    /\ tasks[d].settled.value = JsBigInt(42)

\* C28: the raw field of the DecryptResult of a decryptValue call is the body
\* of the gateway's response as it came (every field of it), and the value
\* field is the integer parsed from the body's value field.
C28_RawPayload ==
  \A id \in DecryptTasks :
    LET t == tasks[id]
    IN t.pc = "resolved" =>
         /\ t.settled.value = JsBigInt(ParseDigits(t.cur.response.body.value))
         /\ t.settled.raw = t.cur.response.body


\* C29: a call of verifyDecryptSignature resolves (never rejects) with a
\* boolean, which is true exactly when verifyMessage recovers an address from
\* the signature over the public key and that address is expectedAddress up
\* to letter case; so it is false when recovery fails.
VerifyTasks == {id \in DOMAIN tasks : tasks[id].fn = "verifyDecryptSignature"}
SameIgnoringCase(a, b) ==
  /\ Len(a) = Len(b)
  /\ \A i \in 1..Len(a) : a[i] = b[i] \/ LowerOf(a[i]) = b[i] \/ a[i] = LowerOf(b[i])
CallsInFlight(h) == {id \in HookTasks : tasks[id].via = h /\ ~IsSettled(tasks[id])}
C30_InProgressFlag == \A h \in Hooks : busy[h] <=> CallsInFlight(h) # {}


\* A step that is a transaction calling fn (a step of the clock changes
\* neither the storage nor the record of the last call).
Transaction(fn) ==
  /\ lastCall'.fn = fn
  /\ <<storage, lastCall>>' # <<storage, lastCall>>

\* C31: currentMarathonId is 0 after deployment; a successful createMarathon
\* raises it by one and stores under the new id a marathon with no
\* registrations, active, not completed and with an empty prize pool; a
\* createMarathon that reverts leaves currentMarathonId and every marathon as
\* they were.
C31_CreateMarathon ==
  /\ currentMarathonId = 0
  /\ [][Transaction("createMarathon") =>
          IF lastCall'.reverted
          THEN currentMarathonId' = currentMarathonId /\ marathons' = marathons
          ELSE /\ currentMarathonId' = currentMarathonId + 1
               /\ marathons'[currentMarathonId'].currentRegistrations = 0
               /\ marathons'[currentMarathonId'].isActive
               /\ ~marathons'[currentMarathonId'].isCompleted
               /\ marathons'[currentMarathonId'].prizePool = 0]_vars
\* A second marathon was created after a runner registered for the first.
C31_Witness ==
  /\ lastCall.fn = "createMarathon" /\ ~lastCall.reverted
  /\ currentMarathonId = 2
  /\ marathons[1].currentRegistrations = 1
  /\ marathons[2] = Marathon(2, 1, 1)

\* C32: createMarathon, recordFinishTime, completeMarathon, cancelMarathon,
\* updateRegistrationFee and emergencyWithdraw revert when the sender is not
\* the organizer, and leave the state as it was; the organizer never changes.
OrganizerFunctions ==
  {"createMarathon", "recordFinishTime", "completeMarathon", "cancelMarathon",
   "updateRegistrationFee", "emergencyWithdraw"}
C32_OnlyOrganizer ==
  /\ [](organizer = Deployer)
  /\ [][\A fn \in OrganizerFunctions :
          Transaction(fn) /\ lastCall'.sender # organizer =>
            lastCall'.reverted /\ storage' = storage]_vars
\* A runner of a marathon that could be cancelled called cancelMarathon.
C32_Witness ==
  /\ lastCall.fn = "cancelMarathon" /\ lastCall.sender = "0xA11CE"
  /\ lastCall.reverted
  /\ marathons[1].isActive /\ marathons[1].currentRegistrations = 1
  /\ balance = 10

\* C33: currentRegistrations of a marathon never exceeds its maxParticipants,
\* and a registerForMarathon call for a marathon that is full reverts.
IsFull(marathonId) ==
  marathons[marathonId].currentRegistrations >= marathons[marathonId].maxParticipants
C33_Capacity ==
  /\ [](\A m \in MarathonIds :
          marathons[m].currentRegistrations <= marathons[m].maxParticipants)
  /\ [][Transaction("registerForMarathon") /\ IsFull(lastCall'.marathonId) =>
          lastCall'.reverted /\ storage' = storage]_vars
\* An account that has not registered called registerForMarathon for an
\* active marathon that had the one runner it admits, before the deadline.
C33_Witness ==
  /\ lastCall.fn = "registerForMarathon" /\ lastCall.reverted
  /\ lastCall.marathonId = 1 /\ lastCall.sender = "0xB0B"
  /\ marathons[1].isActive /\ now = 0
  /\ marathons[1].maxParticipants = 1 /\ marathons[1].currentRegistrations = 1
  /\ ~runners[1]["0xB0B"].hasRegistered
  /\ usedAnonymousIds[1] = {"0xaa"}

\* C34: within one marathon an address registers at most once and an
\* anonymous id belongs to at most one registered runner; the same address
\* may register for several marathons.
Registered(marathonId) == {a \in Accounts : runners[marathonId][a].hasRegistered}
C34_OneRegistration ==
  \A m \in MarathonIds :
    /\ \A i, j \in DOMAIN participants[m] :
          i # j => participants[m][i] # participants[m][j]
    /\ \A a, b \in Registered(m) :
          a # b => runners[m][a].anonymousId # runners[m][b].anonymousId
\* One account is a runner of both marathons, under the same id, next to
\* another runner of the first, and a further registration was refused.
C34_Witness ==
  /\ Registered(1) = {"0xA11CE", "0xB0B"}
  /\ Registered(2) = {"0xA11CE"}
  /\ runners[1]["0xA11CE"].anonymousId = runners[2]["0xA11CE"].anonymousId
  /\ lastCall.fn = "registerForMarathon" /\ lastCall.reverted
  /\ lastCall.marathonId = 1 /\ now = 0

\* C35: a successful registerForMarathon raises the marathon's
\* currentRegistrations by one, adds all of the value sent (the excess over
\* the fee included) to its prizePool, appends the sender to its participants
\* and changes no other marathon; one that reverts changes no marathon.
OfMarathon(m) ==
  <<marathons[m], participants[m], runners[m], usedAnonymousIds[m], leaderboards[m]>>
C35_RegistrationEffect ==
  [][Transaction("registerForMarathon") =>
       LET m == lastCall'.marathonId
           sent == balance' - balance
       IN IF lastCall'.reverted
          THEN \A k \in MarathonIds : OfMarathon(k)' = OfMarathon(k)
          ELSE /\ marathons'[m].currentRegistrations =
                    marathons[m].currentRegistrations + 1
               /\ sent >= registrationFee
               /\ marathons'[m].prizePool = marathons[m].prizePool + sent
               /\ participants'[m] = Append(participants[m], lastCall'.sender)
               /\ \A k \in MarathonIds \ {m} : OfMarathon(k)' = OfMarathon(k)]_vars
\* The second runner of the first marathon sent twice the fee, with a runner
\* registered for the second marathon.
C35_Witness ==
  /\ lastCall.fn = "registerForMarathon" /\ ~lastCall.reverted
  /\ lastCall.marathonId = 1 /\ lastCall.sender = "0xA11CE"
  /\ participants[1] = <<"0xB0B", "0xA11CE">>
  /\ registrationFee = 10 /\ marathons[1].prizePool = 30
  /\ marathons[2].prizePool = 10

\* C36: registerForMarathon succeeds only for a marathon that exists and is
\* active, at a block time strictly before its registrationDeadline; so it
\* reverts at and after the deadline, for the id 0 and for an id above
\* currentMarathonId, and, a marathon that was cancelled or completed being
\* inactive for good, after cancelMarathon and completeMarathon.
C36_RegistrationWindow ==
  /\ [][Transaction("registerForMarathon") /\ ~lastCall'.reverted =>
          LET m == lastCall'.marathonId
          IN /\ m \in Existing
             /\ marathons[m].isActive
             /\ now < marathons[m].registrationDeadline]_vars
  /\ [][\A fn \in {"cancelMarathon", "completeMarathon"} :
          Transaction(fn) /\ ~lastCall'.reverted =>
            ~marathons'[lastCall'.marathonId].isActive]_vars
  /\ [][\A m \in Existing : ~marathons[m].isActive => ~marathons'[m].isActive]_vars
\* An account that has not registered called registerForMarathon at the
\* deadline of an active marathon with a free place.
C36_Witness ==
  /\ lastCall.fn = "registerForMarathon" /\ lastCall.reverted
  /\ lastCall.marathonId = 1 /\ lastCall.sender = "0xB0B"
  /\ now = marathons[1].registrationDeadline
  /\ marathons[1].isActive
  /\ marathons[1].maxParticipants = 2 /\ participants[1] = <<"0xA11CE">>

\* C37: processLeaderboardReveal writes the decrypted finish times to the
\* leaderboard of the marathon that is currentMarathonId when the callback
\* runs, not to that of the marathon the decryption was requested for; when
\* another marathon has been created between the request and the callback,
\* the leaderboard of the requesting marathon stays unrevealed.
Unrevealed(marathonId) ==
  \A i \in DOMAIN leaderboards[marathonId] : ~leaderboards[marathonId][i].isRevealed
Answered == {r \in DOMAIN requests : requests[r].answered}
C37_RevealTarget ==
  /\ [][Transaction("processLeaderboardReveal") =>
          \A m \in MarathonIds \ {currentMarathonId} : leaderboards'[m] = leaderboards[m]]_vars
  /\ [][Transaction("processLeaderboardReveal") /\ ~lastCall'.reverted =>
          \E r \in Answered' \ Answered :
            LET finishTimes == requests[r].finishTimes
                written == leaderboards'[currentMarathonId]
            IN \A i \in DOMAIN finishTimes \cap DOMAIN written :
                 \E j \in DOMAIN written :
                   written[j].isRevealed /\ written[j].finishTime = finishTimes[i]]_vars
  /\ [][\A m \in Existing :
          m < currentMarathonId /\ Unrevealed(m) => Unrevealed(m)']_vars
\* The callback for the first marathon ran after the second was created: the
\* finish times of the first marathon are on the leaderboard of the second,
\* revealed, and the entries of the first are as recordFinishTime left them.
C37_Witness ==
  /\ lastCall.fn = "processLeaderboardReveal" /\ ~lastCall.reverted
  /\ currentMarathonId = 2
  /\ requests[1].marathonId = 1 /\ requests[1].answered
  /\ requests[1].finishTimes = <<250, 200>>
  /\ Len(leaderboards[1]) = 2 /\ Unrevealed(1)
  /\ \A i \in DOMAIN leaderboards[1] : leaderboards[1][i].finishTime = 0
  /\ Len(leaderboards[2]) = 2
  /\ \A i \in DOMAIN leaderboards[2] : leaderboards[2][i].isRevealed
  /\ leaderboards[2][1].finishTime = 200 /\ leaderboards[2][2].finishTime = 250

\* C39: after completeMarathon and the reveal callback every revealed entry
\* of a leaderboard carries the finish time that was recorded for the runner
\* who owns the entry's anonymousId, in whatever order the runners registered
\* and finished and also when some never finished, and the leaderboard is
\* sorted by finish time, ascending.
\* The marathons whose request, made with every finish time recorded so far,
\* the oracle has answered.
RevealRequested ==
  {m \in Existing :
     \E r \in Answered : /\ requests[r].marathonId = m
                         /\ requests[r].finishTimes = revealLeaderboard(m)}
C39_RevealedTimes ==
  \A m \in RevealRequested :
    LET leaderboard == leaderboards[m]
    IN /\ \A i \in DOMAIN leaderboard :
            leaderboard[i].isRevealed =>
              LET owner == findRunnerByAnonymousId(m, leaderboard[i].anonymousId)
              IN leaderboard[i].finishTime = runners[m][owner].encryptedFinishTime
       /\ \A i, j \in DOMAIN leaderboard :
            /\ i < j /\ leaderboard[i].isRevealed /\ leaderboard[j].isRevealed
            => leaderboard[i].finishTime <= leaderboard[j].finishTime

\* C38: an initialize() that starts while the facade is ready changes only
\* loading (to true) and error (to null), and instance and ready keep their
\* values until the creation call it made settles: a step after which such
\* a call is pending, the step that made it included, changes neither.
C38_ReinitializeFrame ==
  [][\A f \in Facades : \A k \in CallsOf(f)' :
       creates'[k].wasReady /\ Pending(k)'
       => /\ instance'[f] = instance[f] /\ ready'[f] = ready[f]
          /\ k \notin CallsOf(f) => loading'[f] /\ error'[f] = Null]_vars

\* C40: a successful cancelMarathon leaves the marathon inactive with an
\* empty prize pool and pays back to the participants what their
\* registrations added to the pool: what leaves the contract in that step,
\* and reaches the accounts, is the prizePool the marathon had before it.
C40_CancelRefunds ==
  [][Transaction("cancelMarathon") /\ ~lastCall'.reverted =>
       LET m == lastCall'.marathonId
           refunds == [a \in Accounts |-> received'[a] - received[a]]
       IN /\ ~marathons'[m].isActive
          /\ marathons'[m].prizePool = 0
          /\ Sum(refunds, Accounts) = marathons[m].prizePool
          /\ balance - balance' = marathons[m].prizePool]_vars
====
